---- MODULE Spec2Model ----
(***************************************************************************)
(* golox: a tree-walking interpreter for Lox written in Go.                *)
(*                                                                         *)
(* The model follows the pipeline of main.go: run(source) scans the source *)
(* into tokens, parses the tokens into statements and interprets them.     *)
(* Scanner, parser and evaluator are recursive functions in the code and   *)
(* recursive operators here; the loops of the driver (runPromt), of        *)
(* Parser.Parse and of Interpreter.Interpret are the actions.              *)
(*                                                                         *)
(* Encoding.  Every structured datum is a record.  A runtime value carries *)
(* its Go dynamic type in field t and its payload in a field named after   *)
(* the type, so that values of different types are never compared         *)
(* payload to payload.  An AST node carries its Go type in field k.        *)
(***************************************************************************)
EXTENDS Integers, Sequences, FiniteSets, TLC

(***************************************************************************)
(* Runtime values (Go: any).                                               *)
(***************************************************************************)
NilV == [t |-> "nil"]

BoolV(b) == [t |-> "bool", b |-> b]

StrV(s) == [t |-> "string", s |-> s]

RECURSIVE Gcd(_, _)
Gcd(a, b) == IF b = 0 THEN a ELSE Gcd(b, a % b)

Abs(n) == IF n < 0 THEN -n ELSE n

\* float64 values are modelled as normalised fractions n/d with d >= 0;
\* d = 0 stands for the IEEE values +Inf (n = 1), -Inf (n = -1), NaN (n = 0).
NumV(n, d) ==
    IF d = 0
    THEN [t |-> "float64", n |-> IF n > 0 THEN 1 ELSE IF n < 0 THEN -1 ELSE 0, d |-> 0]
    ELSE LET s == IF d < 0 THEN -1 ELSE 1
             g == Gcd(Abs(n), Abs(d))
         IN  [t |-> "float64", n |-> (s * n) \div g, d |-> (s * d) \div g]

Num(n) == NumV(n, 1)

\* value := ...; the statements that follow use value
With(value, Then(_)) == Then(value)

(***************************************************************************)
(* Tokens (package token).                                                 *)
(***************************************************************************)
Token(type, lexeme, literal, line) ==
    [Type |-> type, Lexeme |-> lexeme, Literal |-> literal, Line |-> line]

KeywordType(text) ==
    CASE text = "and"    -> "AND"
      [] text = "class"  -> "CLASS"
      [] text = "else"   -> "ELSE"
      [] text = "false"  -> "FALSE"
      [] text = "for"    -> "FOR"
      [] text = "fun"    -> "FUN"
      [] text = "if"     -> "IF"
      [] text = "nil"    -> "NIL"
      [] text = "or"     -> "OR"
      [] text = "print"  -> "PRINT"
      [] text = "return" -> "RETURN"
      [] text = "super"  -> "SUPER"
      [] text = "this"   -> "THIS"
      [] text = "true"   -> "TRUE"
      [] text = "var"    -> "VAR"
      [] text = "while"  -> "WHILE"
      [] OTHER           -> ""

(***************************************************************************)
(* Scanner (package scanner).  A source is a string; Start and Current are *)
(* the 0-based byte offsets of the code.                                   *)
(***************************************************************************)
Digits == <<"0", "1", "2", "3", "4", "5", "6", "7", "8", "9">>

isDigit(c) == \E i \in 1..10 : Digits[i] = c

DigitVal(c) == (CHOOSE i \in 1..10 : Digits[i] = c) - 1

isAlpha(c) ==
    c \in { "a", "b", "c", "d", "e", "f", "g", "h", "i", "j", "k", "l", "m",
            "n", "o", "p", "q", "r", "s", "t", "u", "v", "w", "x", "y", "z",
            "A", "B", "C", "D", "E", "F", "G", "H", "I", "J", "K", "L", "M",
            "N", "O", "P", "Q", "R", "S", "T", "U", "V", "W", "X", "Y", "Z",
            "_" }

isAlphaNumeric(c) == isAlpha(c) \/ isDigit(c)

\* Source[lo:hi] of Go
Slice(src, lo, hi) == SubSeq(src, lo + 1, hi)

\* string(Source[i]) of Go
CharAt(src, i) == SubSeq(src, i + 1, i + 1)

ScannerNew(source) ==
    [Source |-> source, Start |-> 0, Current |-> 0, Line |-> 1,
     Tokens |-> <<>>, Diag |-> <<>>, Spans |-> <<>>]

ScanAtEnd(s) == s.Current >= Len(s.Source)

\* the two-character string "\\0" of the code is written NUL here
ScanPeek(s) == IF ScanAtEnd(s) THEN "NUL" ELSE CharAt(s.Source, s.Current)

ScanPeekNext(s) ==
    IF s.Current + 1 >= Len(s.Source) THEN "NUL"
    ELSE CharAt(s.Source, s.Current + 1)

ScanAdvance(s) == [s EXCEPT !.Current = @ + 1]

\* addToken that takes the text after the first character of the token
addTokenPastStart(s, tokenType, literal) ==
    [s EXCEPT !.Tokens =
        Append(@, Token(tokenType, Slice(s.Source, s.Start + 1, s.Current),
                        literal, s.Line)),
              !.Spans = Append(@, [start |-> s.Start, current |-> s.Current])]

\* Spans records Start and Current of the scanner at each emission
addToken(s, tokenType, literal) ==
    [s EXCEPT !.Tokens =
        Append(@, Token(tokenType, Slice(s.Source, s.Start, s.Current),
                        literal, s.Line)),
              !.Spans = Append(@, [start |-> s.Start, current |-> s.Current])]

\* a report that gives up on the rest of the source
ScanErrorStopsScan(s, message) ==
    [s EXCEPT !.Diag = Append(@, [line |-> s.Line, msg |-> message]),
              !.Current = Len(s.Source)]

ScanError(s, message) ==
    [s EXCEPT !.Diag = Append(@, [line |-> s.Line, msg |-> message])]

\* match(expected): consumes the current character when it is the expected one
ScanMatches(s, expected) ==
    ~ScanAtEnd(s) /\ CharAt(s.Source, s.Current) = expected

RECURSIVE ScanString(_)
ScanString(s) ==
    IF ScanPeek(s) # "\"" /\ ~ScanAtEnd(s)
    THEN ScanString(ScanAdvance(
             IF ScanPeek(s) = "\n" THEN [s EXCEPT !.Line = @ + 1] ELSE s))
    ELSE IF ScanAtEnd(s)
         THEN ScanError(s, "Unterminated string.")
         ELSE LET s1 == ScanAdvance(s)
              IN  addToken(s1, "STRING",
                      StrV(Slice(s1.Source, s1.Start + 1, s1.Current - 1)))

RECURSIVE SkipDigits(_)
SkipDigits(s) == IF isDigit(ScanPeek(s)) THEN SkipDigits(ScanAdvance(s)) ELSE s

RECURSIVE ParseDigits(_)
ParseDigits(chars) ==
    IF Len(chars) = 0 THEN 0
    ELSE 10 * ParseDigits(SubSeq(chars, 1, Len(chars) - 1))
         + DigitVal(CharAt(chars, Len(chars) - 1))

RECURSIVE Pow10(_)
Pow10(k) == IF k = 0 THEN 1 ELSE 10 * Pow10(k - 1)

\* strconv.ParseFloat on a lexeme digits[.digits]
ParseFloat(chars) ==
    IF \E i \in 1..Len(chars) : CharAt(chars, i - 1) = "."
    THEN LET p == CHOOSE i \in 1..Len(chars) : CharAt(chars, i - 1) = "."
             whole == SubSeq(chars, 1, p - 1)
             frac  == SubSeq(chars, p + 1, Len(chars))
         IN  NumV(ParseDigits(whole) * Pow10(Len(frac)) + ParseDigits(frac),
                  Pow10(Len(frac)))
    ELSE Num(ParseDigits(chars))

ScanNumber(s) ==
    LET s1 == SkipDigits(s)
        s2 == IF ScanPeek(s1) = "." /\ isDigit(ScanPeekNext(s1))
              THEN SkipDigits(ScanAdvance(s1))
              ELSE s1
    IN  addToken(s2, "NUMBER", ParseFloat(Slice(s2.Source, s2.Start, s2.Current)))

RECURSIVE SkipAlphaNumeric(_)
SkipAlphaNumeric(s) ==
    IF isAlphaNumeric(ScanPeek(s)) THEN SkipAlphaNumeric(ScanAdvance(s)) ELSE s

ScanIdentifier(s) ==
    LET s1   == SkipAlphaNumeric(s)
        text == Slice(s1.Source, s1.Start, s1.Current)
        tokenType == IF KeywordType(text) = "" THEN "IDENTIFIER"
                     ELSE KeywordType(text)
    IN  addToken(s1, tokenType, StrV(text))

RECURSIVE SkipComment(_)
SkipComment(s) ==
    IF ScanPeek(s) # "\n" /\ ~ScanAtEnd(s) THEN SkipComment(ScanAdvance(s)) ELSE s

\* a scanToken that never looks at the byte after <
scanTokenLessAlone(s0) ==
    LET c == CharAt(s0.Source, s0.Current)
        s == ScanAdvance(s0)
        two(second, ifTwo, ifOne) ==
            IF ScanMatches(s, second)
            THEN addToken(ScanAdvance(s), ifTwo, StrV(ifTwo))
            ELSE addToken(s, ifOne, StrV(ifOne))
    IN  CASE c \in { "(", ")", "{", "}", ",", ".", "-", "+", ";", "*", "<" } ->
                addToken(s, c, StrV(c))
          [] c = "!" -> two("=", "!=", "!")
          [] c = "=" -> two("=", "==", "=")
          [] c = ">" -> two("=", ">=", ">")
          [] c = "/" -> IF ScanMatches(s, "/")
                        THEN SkipComment(ScanAdvance(s))
                        ELSE addToken(s, "/", StrV("/"))
          [] c \in { " ", "\r", "\t" } -> s
          [] c = "\n" -> [s EXCEPT !.Line = @ + 1]
          [] c = "\"" -> ScanString(s)
          [] OTHER -> IF isDigit(c) THEN ScanNumber(s)
                      ELSE IF isAlpha(c) THEN ScanIdentifier(s)
                      ELSE ScanError(s, "Unexpected character " \o c)

scanToken(s0) ==
    LET c == CharAt(s0.Source, s0.Current)
        s == ScanAdvance(s0)
        two(second, ifTwo, ifOne) ==
            IF ScanMatches(s, second)
            THEN addToken(ScanAdvance(s), ifTwo, StrV(ifTwo))
            ELSE addToken(s, ifOne, StrV(ifOne))
    IN  CASE c \in { "(", ")", "{", "}", ",", ".", "-", "+", ";", "*" } ->
                addToken(s, c, StrV(c))
          [] c = "!" -> two("=", "!=", "!")
          [] c = "=" -> two("=", "==", "=")
          [] c = "<" -> two("=", "<=", "<")
          [] c = ">" -> two("=", ">=", ">")
          [] c = "/" -> IF ScanMatches(s, "/")
                        THEN SkipComment(ScanAdvance(s))
                        ELSE addToken(s, "/", StrV("/"))
          [] c \in { " ", "\r", "\t" } -> s
          [] c = "\n" -> [s EXCEPT !.Line = @ + 1]
          [] c = "\"" -> ScanString(s)
          [] OTHER -> IF isDigit(c) THEN ScanNumber(s)
                      ELSE IF isAlpha(c) THEN ScanIdentifier(s)
                      ELSE ScanError(s, "Unexpected character " \o c)

\* at most n iterations of the loop of ScanTokens; the iterations are taken
\* in two halves, which keeps the evaluation of a long scan shallow
RECURSIVE ScanIterations(_, _)
ScanIterations(s, n) ==
    IF n = 0 \/ ScanAtEnd(s) THEN s
    ELSE IF n = 1 THEN scanToken([s EXCEPT !.Start = s.Current])
    ELSE ScanIterations(ScanIterations(s, n \div 2), n - (n \div 2))

\* for !s.isAtEnd(): every iteration advances, so Len(Source) of them suffice
ScanLoop(s) == ScanIterations(s, Len(s.Source) - s.Current)

\* the scanner at the head of each iteration of the loop of ScanTokens, and
\* after the last one
RECURSIVE TraceIterations(_, _)
TraceIterations(trace, n) ==
    IF n = 0 \/ ScanAtEnd(trace[Len(trace)]) THEN trace
    ELSE IF n = 1
    THEN Append(trace, scanToken([trace[Len(trace)] EXCEPT
                                      !.Start = trace[Len(trace)].Current]))
    ELSE TraceIterations(TraceIterations(trace, n \div 2), n - (n \div 2))

ScanTrace(s) == TraceIterations(<<s>>, Len(s.Source) - s.Current)

\* ScanTokens whose EOF token carries the line of the scanner's creation
ScanTokensEOFOnFirstLine(source) ==
    LET s == ScanLoop(ScannerNew(source))
    IN  [s EXCEPT !.Tokens = Append(@, Token("EOF", "", NilV, 1))]

\* ScanTokens: the scanner after the loop, with the EOF token appended
ScanTokens(source) ==
    LET s == ScanLoop(ScannerNew(source))
    IN  [s EXCEPT !.Tokens = Append(@, Token("EOF", "", NilV, s.Line))]

(***************************************************************************)
(* AST nodes (packages ast and statement).  A nil interface value is the   *)
(* node NilNode; a nil *statement.Function stored in a Stmt is NilFunction. *)
(***************************************************************************)
NilNode == [k |-> "nil"]

NilFunction == [k |-> "nilFunction"]

ZeroToken == Token("", "", NilV, 0)

Literal(value) == [k |-> "Literal", Value |-> value]

Grouping(expr) == [k |-> "Grouping", Expression |-> expr]

Unary(operator, right) == [k |-> "Unary", Operator |-> operator, Right |-> right]

Binary(left, operator, right) ==
    [k |-> "Binary", Left |-> left, Operator |-> operator, Right |-> right]

Logical(left, operator, right) ==
    [k |-> "Logical", Left |-> left, Operator |-> operator, Right |-> right]

Variable(name) == [k |-> "Variable", Name |-> name]

Assign(name, value) == [k |-> "Assign", Name |-> name, Value |-> value]

Call(callee, paren, arguments) ==
    [k |-> "Call", Callee |-> callee, Paren |-> paren, Arguments |-> arguments]

BlockStmt(statements) == [k |-> "Block", Statements |-> statements]

ExpressionStmt(expr) == [k |-> "Expression", Expression |-> expr]

FunctionStmt(name, params, body) ==
    [k |-> "Function", Name |-> name, Params |-> params, Body |-> body]

IfStmt(condition, thenBranch, elseBranch) ==
    [k |-> "If", Condition |-> condition, ThenBranch |-> thenBranch,
     ElseBranch |-> elseBranch]

PrintStmt(expr) == [k |-> "Print", Expression |-> expr]

ReturnStmt(keyword, value) == [k |-> "Return", Keyword |-> keyword, Value |-> value]

VarStmt(name, initializer) ==
    [k |-> "Var", Name |-> name, Initializer |-> initializer]

WhileStmt(condition, body) == [k |-> "While", Condition |-> condition, Body |-> body]

(***************************************************************************)
(* Parser (package parser, the revision whose Parse returns the statement  *)
(* list and the error flag).  A parser is the record [Tokens, Current];    *)
(* every production returns the parser after it, the node and the error    *)
(* ("" is the nil error).                                                  *)
(***************************************************************************)
\* strconv.Itoa
RECURSIVE Itoa(_)
Itoa(n) ==
    IF n < 0 THEN "-" \o Itoa(0 - n)
    ELSE IF n < 10 THEN Digits[n + 1]
    ELSE Itoa(n \div 10) \o Digits[(n % 10) + 1]

\* the digits after the point of rem / d, at most k of them
RECURSIVE FracDigits(_, _, _)
FracDigits(rem, d, k) ==
    IF rem = 0 \/ k = 0 THEN ""
    ELSE Digits[((rem * 10) \div d) + 1] \o FracDigits((rem * 10) % d, d, k - 1)

\* %v of a float64: the shortest decimal that reads back to the value; the
\* exponent form of very large and very small values is not reached here
FormatFloat(v) ==
    IF v.d = 0
    THEN (IF v.n > 0 THEN "+Inf" ELSE IF v.n < 0 THEN "-Inf" ELSE "NaN")
    ELSE IF v.n % v.d = 0 THEN Itoa(v.n \div v.d)
    ELSE (IF v.n < 0 THEN "-" ELSE "") \o Itoa(Abs(v.n) \div v.d) \o "."
             \o FracDigits(Abs(v.n) % v.d, v.d, 16)

\* %v of the values that have no fields. No type of the program has a
\* String method, so a nil interface is <nil>.
SprintBasic(v) ==
    CASE v.t = "nil"     -> "<nil>"
      [] v.t = "bool"    -> IF v.b THEN "true" ELSE "false"
      [] v.t = "string"  -> v.s
      [] v.t = "float64" -> FormatFloat(v)

\* %v of a token.Token inside a struct: its fields in braces; the scanner
\* stores strings, numbers and nil as Literal
SprintToken(t) ==
    "{" \o t.Type \o " " \o t.Lexeme \o " " \o SprintBasic(t.Literal) \o " "
        \o Itoa(t.Line) \o "}"

\* Out holds what the parser itself has written to standard output
ParserNew(tokens) == [Tokens |-> tokens, Current |-> 0, Out |-> <<>>]

PResult(p, node, err) == [p |-> p, node |-> node, err |-> err]

previous(p) == p.Tokens[p.Current]

peek(p) == p.Tokens[p.Current + 1]

isAtEnd(p) == peek(p).Type = "EOF"

advance(p) == IF ~isAtEnd(p) THEN [p EXCEPT !.Current = @ + 1] ELSE p

check(p, tp) == IF isAtEnd(p) THEN FALSE ELSE peek(p).Type = tp

\* match(types...) is true, and advances, when the current token has one of the types
match(p, types) == \E tp \in types : check(p, tp)

consume(p, tp, message) ==
    IF check(p, tp)
    THEN [p |-> advance(p), tok |-> previous(advance(p)), err |-> ""]
    ELSE [p |-> p, tok |-> peek(p), err |-> message]

RECURSIVE SynchronizeLoop(_)
SynchronizeLoop(p) ==
    IF isAtEnd(p) THEN p
    ELSE IF previous(p).Type = ";" THEN p
    ELSE IF peek(p).Type = "RETURN" THEN p
    \* the cases CLASS, FUN, VAR, FOR, IF, WHILE, PRINT are empty: a Go
    \* switch does not fall through, so they leave the switch and advance
    ELSE SynchronizeLoop(advance(p))

synchronize(p) == SynchronizeLoop(advance(p))

RECURSIVE expression(_)
RECURSIVE assignment(_)
RECURSIVE unary(_)
RECURSIVE call(_)
RECURSIVE BinaryLoop(_, _, _)
RECURSIVE Operand(_, _)
RECURSIVE factor(_)
RECURSIVE term(_)
RECURSIVE comparison(_)
RECURSIVE equality(_)
RECURSIVE and(_)
RECURSIVE or(_)
RECURSIVE ArgumentsIterations(_, _)
RECURSIVE CallLoop(_, _)
RECURSIVE declaration(_)
RECURSIVE statement(_)
RECURSIVE BlockLoop(_, _)

primary(p) ==
    IF match(p, {"FALSE"}) THEN PResult(advance(p), Literal(BoolV(FALSE)), "")
    ELSE IF match(p, {"TRUE"}) THEN PResult(advance(p), Literal(BoolV(TRUE)), "")
    ELSE IF match(p, {"NIL"}) THEN PResult(advance(p), Literal(NilV), "")
    ELSE IF match(p, {"NUMBER", "STRING"})
         THEN PResult(advance(p), Literal(previous(advance(p)).Literal), "")
    ELSE IF match(p, {"IDENTIFIER"})
         THEN PResult(advance(p), Variable(previous(advance(p))), "")
    ELSE IF match(p, {"("})
         THEN With(expression(advance(p)), LAMBDA e :
                  IF e.err # "" THEN PResult(e.p, NilNode, e.err)
                  ELSE With(consume(e.p, ")", "Expect ')' after expression."),
                            LAMBDA c :
                                IF c.err # "" THEN PResult(c.p, NilNode, c.err)
                                ELSE PResult(c.p, Grouping(e.node), "")))
    ELSE PResult(p, Binary(NilNode, ZeroToken, NilNode), "")

\* the number of commas among the tokens not consumed yet
Commas(p) ==
    Cardinality({j \in (p.Current + 1)..Len(p.Tokens) : p.Tokens[j].Type = ","})

\* the body of for p.match(COMMA) { ... }, the comma being the next token
ArgumentsNext(a) ==
    With(expression(advance(a.p)), LAMBDA e :
        IF e.err # "" THEN [p |-> e.p, args |-> <<>>, err |-> e.err]
        ELSE [p |-> e.p, args |-> Append(a.args, e.node), err |-> ""])

\* at most n iterations of that loop, taken in two halves, which keeps the
\* evaluation of a long list shallow
ArgumentsIterations(a, n) ==
    IF a.err # "" THEN a
    ELSE IF n = 0 \/ ~match(a.p, {","}) THEN a
    ELSE IF n = 1 THEN ArgumentsNext(a)
    ELSE ArgumentsIterations(ArgumentsIterations(a, n \div 2), n - (n \div 2))

\* every iteration consumes a comma, so as many as commas are left suffice
ArgumentsLoop(p, arguments) ==
    ArgumentsIterations([p |-> p, args |-> arguments, err |-> ""], Commas(p))

MaxArguments == 255

finishCall(p, callee) ==
    With(IF ~check(p, ")")
         THEN \* len(arguments) >= 255 is tested on the empty list only
              IF 0 >= MaxArguments
              THEN [p |-> p, args |-> <<>>,
                    err |-> "Can't have more than 255 arguments."]
              ELSE With(expression(p), LAMBDA e :
                       IF e.err # "" THEN [p |-> e.p, args |-> <<>>, err |-> e.err]
                       ELSE ArgumentsLoop(e.p, <<e.node>>))
         ELSE [p |-> p, args |-> <<>>, err |-> ""],
         LAMBDA args :
             IF args.err # "" THEN PResult(args.p, NilNode, args.err)
             ELSE With(consume(args.p, ")", "Expect ')' after arguments."),
                       LAMBDA c :
                           IF c.err # "" THEN PResult(c.p, NilNode, c.err)
                           ELSE PResult(c.p, Call(callee, c.tok, args.args), "")))

CallLoop(p, expr) ==
    IF match(p, {"("})
    THEN With(finishCall(advance(p), expr), LAMBDA f :
             IF f.err # "" THEN PResult(f.p, NilNode, f.err)
             ELSE CallLoop(f.p, f.node))
    ELSE PResult(p, expr, "")

call(p) ==
    With(primary(p), LAMBDA e :
        IF e.err # "" THEN PResult(e.p, NilNode, e.err) ELSE CallLoop(e.p, e.node))

unary(p) ==
    IF match(p, {"!", "-"})
    THEN With(unary(advance(p)), LAMBDA r :
             PResult(r.p, Unary(previous(advance(p)), r.node), r.err))
    ELSE call(p)

\* the operators a level's loop matches
LevelOps(level) ==
    CASE level = "factor"     -> {"*", "/"}
      [] level = "term"       -> {"+", "-"}
      [] level = "comparison" -> {">", ">=", "<", "<="}
      [] level = "equality"   -> {"!=", "=="}
      [] level = "and"        -> {"AND"}
      [] level = "or"         -> {"AND"}

\* expr, err := the next level down; if err != nil { return nil, err };
\* then the loop of the level
FirstChecked(level, e) ==
    IF e.err # "" THEN PResult(e.p, NilNode, e.err)
    ELSE BinaryLoop(level, e.p, e.node)

\* term, comparison and equality do not test the error of their first
\* operand: the loop runs on a nil expression and the error is returned last
FirstUnchecked(level, e) ==
    IF e.err = "" THEN BinaryLoop(level, e.p, e.node)
    ELSE With(BinaryLoop(level, e.p, e.node), LAMBDA l :
             IF l.err # "" THEN l ELSE PResult(l.p, l.node, e.err))

factor(p) == FirstChecked("factor", unary(p))

term(p) == FirstUnchecked("term", factor(p))

comparison(p) == FirstUnchecked("comparison", term(p))

equality(p) == FirstUnchecked("equality", comparison(p))

and(p) == FirstChecked("and", equality(p))

or(p) == FirstChecked("or", and(p))

\* the operand of a level, first or right: the next level down
Operand(level, p) ==
    CASE level = "factor"     -> unary(p)
      [] level = "term"       -> factor(p)
      [] level = "comparison" -> term(p)
      [] level = "equality"   -> comparison(p)
      [] level = "and"        -> equality(p)
      [] level = "or"         -> and(p)

\* for p.match(ops...) { operator := previous(); right, err := operand(); ... }
BinaryLoop(level, p, expr) ==
    IF match(p, LevelOps(level))
    THEN With(Operand(level, advance(p)), LAMBDA r :
             IF r.err # "" THEN PResult(r.p, NilNode, r.err)
             ELSE BinaryLoop(level, r.p,
                      IF level \in {"and", "or"}
                      THEN Logical(expr, previous(advance(p)), r.node)
                      ELSE Binary(expr, previous(advance(p)), r.node)))
    ELSE PResult(p, expr, "")

\* an assignment that leaves a target that is no variable as it is
assignmentIgnoresTarget(p) ==
    With(or(p), LAMBDA e :
        IF e.err # "" THEN PResult(e.p, NilNode, e.err)
        ELSE IF match(e.p, {"="})
        THEN With(assignment(advance(e.p)), LAMBDA v :
                 IF v.err # "" THEN PResult(v.p, NilNode, v.err)
                 ELSE IF e.node.k = "Variable"
                 THEN PResult(v.p, Assign(e.node.Name, v.node), "")
                 ELSE PResult(v.p, e.node, ""))
        ELSE PResult(e.p, e.node, ""))

assignment(p) ==
    With(or(p), LAMBDA e :
        IF e.err # "" THEN PResult(e.p, NilNode, e.err)
        ELSE IF match(e.p, {"="})
        THEN With(assignment(advance(e.p)), LAMBDA v :
                 IF v.err # "" THEN PResult(v.p, NilNode, v.err)
                 ELSE IF e.node.k = "Variable"
                 THEN PResult(v.p, Assign(e.node.Name, v.node), "")
                 ELSE PResult(v.p, NilNode,
                              SprintToken(previous(advance(e.p)))
                                  \o "Invalid assignment target. "))
        ELSE PResult(e.p, e.node, ""))

expression(p) == assignment(p)

\* on an error of expression() the value, a nil ast.Expr, is written with
\* fmt.Println before the error is returned
printStatement(p) ==
    With(expression(p), LAMBDA e :
        IF e.err # ""
        THEN PResult([e.p EXCEPT !.Out = Append(@, "<nil>")], NilNode, e.err)
        ELSE With(consume(e.p, ";", "Expect ';' after value."), LAMBDA c :
                 IF c.err # "" THEN PResult(c.p, NilNode, c.err)
                 ELSE PResult(c.p, PrintStmt(e.node), "")))

expressionStatement(p) ==
    With(expression(p), LAMBDA e :
        IF e.err # "" THEN PResult(e.p, NilNode, e.err)
        ELSE With(consume(e.p, ";", "Expect ';' after value."), LAMBDA c :
                 IF c.err # "" THEN PResult(c.p, NilNode, c.err)
                 ELSE PResult(c.p, ExpressionStmt(e.node), "")))

\* keyword := p.previous()
returnStatement(p) ==
    With(IF ~check(p, ";") THEN expression(p) ELSE PResult(p, NilNode, ""),
         LAMBDA v :
             IF v.err # "" THEN PResult(v.p, NilNode, v.err)
             ELSE With(consume(v.p, ";", "Expect ';' after return value."),
                       LAMBDA c :
                           IF c.err # "" THEN PResult(c.p, NilNode, c.err)
                           ELSE PResult(c.p, ReturnStmt(previous(p), v.node), "")))

varDeclaration(p) ==
    With(consume(p, "IDENTIFIER", "Expect variable name."), LAMBDA name :
        IF name.err # "" THEN PResult(name.p, NilNode, name.err)
        ELSE With(IF match(name.p, {"="})
                  THEN expression(advance(name.p))
                  ELSE PResult(name.p, NilNode, ""),
                  LAMBDA init :
                      IF init.err # "" THEN PResult(init.p, NilNode, init.err)
                      ELSE With(consume(init.p, ";",
                                    "Expect ';' after variable declaration"),
                                LAMBDA c :
                                    IF c.err # "" THEN PResult(c.p, NilNode, c.err)
                                    ELSE PResult(c.p,
                                             VarStmt(name.tok, init.node), ""))))

\* the else branch of ifStatement, after the condition and the then branch
ElseBranch(condition, thenBranch) ==
    IF match(thenBranch.p, {"ELSE"})
    THEN With(statement(advance(thenBranch.p)), LAMBDA elseBranch :
             IF elseBranch.err # ""
             THEN PResult(elseBranch.p, NilNode, elseBranch.err)
             ELSE PResult(elseBranch.p,
                      IfStmt(condition.node, thenBranch.node, elseBranch.node),
                      ""))
    ELSE PResult(thenBranch.p,
             IfStmt(condition.node, thenBranch.node, NilNode), "")

ifStatement(p) ==
    With(consume(p, "(", "Expect '(' after 'if'."), LAMBDA l :
    IF l.err # "" THEN PResult(l.p, NilNode, l.err) ELSE
    With(expression(l.p), LAMBDA condition :
    IF condition.err # "" THEN PResult(condition.p, NilNode, condition.err) ELSE
    With(consume(condition.p, ")", "Expect ')' after 'if'."), LAMBDA r :
    IF r.err # "" THEN PResult(r.p, NilNode, r.err) ELSE
    With(statement(r.p), LAMBDA thenBranch :
    IF thenBranch.err # "" THEN PResult(thenBranch.p, NilNode, thenBranch.err)
    ELSE ElseBranch(condition, thenBranch)))))

whileStatement(p) ==
    With(consume(p, "(", "Expect '(' after 'while'."), LAMBDA l :
    IF l.err # "" THEN PResult(l.p, NilNode, l.err) ELSE
    With(expression(l.p), LAMBDA condition :
    IF condition.err # "" THEN PResult(condition.p, NilNode, condition.err) ELSE
    With(consume(condition.p, ")", "Expect ')' after condition."), LAMBDA r :
    IF r.err # "" THEN PResult(r.p, NilNode, r.err) ELSE
    With(statement(r.p), LAMBDA body :
    IF body.err # "" THEN PResult(body.p, NilNode, body.err)
    ELSE PResult(body.p, WhileStmt(condition.node, body.node), "")))))

\* a clause of the for statement that is present: an expression and the
\* token that closes it
ForClause(p, closing, message) ==
    With(expression(p), LAMBDA e :
        IF e.err # "" THEN e
        ELSE With(consume(e.p, closing, message), LAMBDA c :
                 PResult(c.p, e.node, c.err)))

\* a rewriting that puts the increment before the body
ForLoopIncrementFirst(initializer, condition, increment, body) ==
    LET body1 == IF increment # NilNode
                 THEN BlockStmt(<<ExpressionStmt(increment), body>>)
                 ELSE body
        cond1 == IF condition = NilNode THEN Literal(BoolV(TRUE)) ELSE condition
        loop  == WhileStmt(cond1, body1)
    IN  IF initializer # NilNode THEN BlockStmt(<<initializer, loop>>) ELSE loop

\* the while loop a for statement is rewritten to
ForLoop(initializer, condition, increment, body) ==
    LET body1 == IF increment # NilNode
                 THEN BlockStmt(<<body, ExpressionStmt(increment)>>)
                 ELSE body
        cond1 == IF condition = NilNode THEN Literal(BoolV(TRUE)) ELSE condition
        loop  == WhileStmt(cond1, body1)
    IN  IF initializer # NilNode THEN BlockStmt(<<initializer, loop>>) ELSE loop

forStatement(p) ==
    With(consume(p, "(", "Expect '(' after 'for'."), LAMBDA l :
    IF l.err # "" THEN PResult(l.p, NilNode, l.err) ELSE
    With(IF match(l.p, {";"}) THEN PResult(advance(l.p), NilNode, "")
         ELSE IF match(l.p, {"VAR"}) THEN varDeclaration(advance(l.p))
         ELSE expressionStatement(l.p),
         LAMBDA initializer :
    IF initializer.err # "" THEN PResult(initializer.p, NilNode, initializer.err)
    ELSE
    With(IF ~check(initializer.p, ";")
         THEN ForClause(initializer.p, ";", "Expect ';' after loop condition.")
         ELSE PResult(initializer.p, NilNode, ""),
         LAMBDA condition :
    IF condition.err # "" THEN PResult(condition.p, NilNode, condition.err) ELSE
    With(IF ~check(condition.p, ")")
         THEN ForClause(condition.p, ")", "Expect ')' after for clauses.")
         ELSE PResult(condition.p, NilNode, ""),
         LAMBDA increment :
    IF increment.err # "" THEN PResult(increment.p, NilNode, increment.err) ELSE
    With(statement(increment.p), LAMBDA body :
    IF body.err # "" THEN PResult(body.p, NilNode, body.err)
    ELSE PResult(body.p,
             ForLoop(initializer.node, condition.node, increment.node, body.node),
             ""))))))

\* for !p.check(RIGHT_BRACE) && !p.isAtEnd() { declaration ... }
BlockLoop(p, statements) ==
    IF ~check(p, "}") /\ ~isAtEnd(p)
    THEN With(declaration(p), LAMBDA d :
             IF d.err # "" THEN [p |-> d.p, stmts |-> <<>>, err |-> d.err]
             ELSE BlockLoop(d.p, Append(statements, d.node)))
    ELSE [p |-> p, stmts |-> statements, err |-> ""]

block(p) ==
    With(BlockLoop(p, <<>>), LAMBDA l :
        IF l.err # "" THEN l
        ELSE With(consume(l.p, "}", "Expect '}' after block."), LAMBDA c :
                 IF c.err # "" THEN [p |-> c.p, stmts |-> <<>>, err |-> c.err]
                 ELSE [p |-> c.p, stmts |-> l.stmts, err |-> ""]))

statement(p) ==
    IF match(p, {"FOR"}) THEN forStatement(advance(p))
    ELSE IF match(p, {"IF"}) THEN ifStatement(advance(p))
    ELSE IF match(p, {"PRINT"}) THEN printStatement(advance(p))
    ELSE IF match(p, {"RETURN"}) THEN returnStatement(advance(p))
    ELSE IF match(p, {"WHILE"}) THEN whileStatement(advance(p))
    ELSE IF match(p, {"{"})
         THEN With(block(advance(p)), LAMBDA b :
                  IF b.err # "" THEN PResult(b.p, NilNode, b.err)
                  ELSE PResult(b.p, BlockStmt(b.stmts), ""))
    ELSE expressionStatement(p)

\* the body of for p.match(COMMA) { ... }, the comma being the next token
ParametersNext(a) ==
    With(consume(advance(a.p), "IDENTIFIER", "Expect parameter name."),
         LAMBDA param :
             IF param.err # ""
             THEN [p |-> param.p, params |-> <<>>, err |-> param.err]
             ELSE [p |-> param.p, params |-> Append(a.params, param.tok),
                   err |-> ""])

\* at most n iterations of that loop, taken in two halves
RECURSIVE ParametersIterations(_, _)
ParametersIterations(a, n) ==
    IF a.err # "" THEN a
    ELSE IF n = 0 \/ ~match(a.p, {","}) THEN a
    ELSE IF n = 1 THEN ParametersNext(a)
    ELSE ParametersIterations(ParametersIterations(a, n \div 2), n - (n \div 2))

ParametersLoop(p, parameters) ==
    ParametersIterations([p |-> p, params |-> parameters, err |-> ""], Commas(p))

MaxParameters == 255

\* function returns a *statement.Function: its nil is a typed nil pointer
function(p, kind) ==
    With(consume(p, "IDENTIFIER", "Expect " \o kind \o " name."), LAMBDA name :
    IF name.err # "" THEN PResult(name.p, NilFunction, name.err) ELSE
    With(consume(name.p, "(", "Expect '(' after " \o kind \o " name."), LAMBDA l :
    IF l.err # "" THEN PResult(l.p, NilFunction, l.err) ELSE
    With(IF ~check(l.p, ")")
         THEN \* len(parameters) >= 255 is tested on the empty list only
              IF 0 >= MaxParameters
              THEN [p |-> l.p, params |-> <<>>,
                    err |-> "Can't have more than 255 parameters."]
              ELSE With(consume(l.p, "IDENTIFIER", "Expect parameter name."),
                        LAMBDA param :
                            IF param.err # ""
                            THEN [p |-> param.p, params |-> <<>>,
                                  err |-> param.err]
                            ELSE ParametersLoop(param.p, <<param.tok>>))
         ELSE [p |-> l.p, params |-> <<>>, err |-> ""],
         LAMBDA params :
    IF params.err # "" THEN PResult(params.p, NilFunction, params.err) ELSE
    With(consume(params.p, ")", "Expect ')' after parameters."), LAMBDA r :
    IF r.err # "" THEN PResult(r.p, NilFunction, r.err) ELSE
    With(consume(r.p, "{", "Expect '{' before " \o kind \o " body."), LAMBDA lb :
    IF lb.err # "" THEN PResult(lb.p, NilFunction, lb.err) ELSE
    With(block(lb.p), LAMBDA body :
    IF body.err # "" THEN PResult(body.p, NilFunction, body.err)
    ELSE PResult(body.p, FunctionStmt(name.tok, params.params, body.stmts), "")
    ))))))

declaration(p) ==
    IF match(p, {"FUN"}) THEN function(advance(p), "function")
    ELSE IF match(p, {"VAR"}) THEN varDeclaration(advance(p))
    ELSE statement(p)

\* the lines the parser has written to standard output between p and q
Written(p, q) ==
    [j \in 1..(Len(q.Out) - Len(p.Out)) |-> [println |-> q.Out[Len(p.Out) + j]]]

\* an iteration of Parse that does not call synchronize after an error
ParseIterationNoSynchronize(ps) ==
    With(declaration(ps.p), LAMBDA d :
        [p          |-> d.p,
         statements |-> Append(ps.statements, d.node),
         isError    |-> ps.isError \/ d.err # "",
         diag       |-> IF d.err = "" THEN ps.diag
                        ELSE Append(ps.diag \o Written(ps.p, d.p),
                                    [line |-> peek(d.p).Line, msg |-> d.err])])

\* one iteration of the loop of Parse; ps = [p, statements, isError, diag]
ParseIteration(ps) ==
    With(declaration(ps.p), LAMBDA d :
        IF d.err # ""
        THEN [p          |-> synchronize(d.p),
              statements |-> Append(ps.statements, d.node),
              isError    |-> TRUE,
              diag       |-> Append(ps.diag \o Written(ps.p, d.p),
                                    [line |-> peek(d.p).Line, msg |-> d.err])]
        ELSE [p          |-> d.p,
              statements |-> Append(ps.statements, d.node),
              isError    |-> ps.isError,
              diag       |-> ps.diag])

RECURSIVE ParseLoop(_)
ParseLoop(ps) == IF isAtEnd(ps.p) THEN ps ELSE ParseLoop(ParseIteration(ps))

Parse(tokens) ==
    ParseLoop([p |-> ParserNew(tokens), statements |-> <<>>, isError |-> FALSE,
               diag |-> <<>>])

(***************************************************************************)
(* Environments (package interpreter, environment.go).  An Environment is  *)
(* a struct holding a map and a pointer; copies of the struct share the    *)
(* map, so a frame is identified with its map: heap[id] is the frame, and  *)
(* Enclosing is the id of the enclosing frame, 0 for the nil pointer.      *)
(***************************************************************************)
EmptyValues == [name \in {} |-> NilV]

Frame(values, enclosing) == [Values |-> values, Enclosing |-> enclosing]

\* the struct literal of run(): the global frame, with clock defined
GlobalEnv == Frame([name \in {"clock"} |-> [t |-> "clock"]], 0)

\* NewEnvironment allocates the map of a new frame; the frame's id is returned
\* as the last index of the heap
NewEnvironment(heap, enclosing) == Append(heap, Frame(EmptyValues, enclosing))

\* Define that walks outward to a frame that already owns the name
RECURSIVE DefineWhereOwned(_, _, _, _)
DefineWhereOwned(heap, e, name, value) ==
    IF name \in DOMAIN heap[e].Values \/ heap[e].Enclosing = 0
    THEN [heap EXCEPT ![e].Values =
             [n \in DOMAIN @ \cup {name} |-> IF n = name THEN value ELSE @[n]]]
    ELSE DefineWhereOwned(heap, heap[e].Enclosing, name, value)

Define(heap, e, name, value) ==
    [heap EXCEPT ![e].Values =
        [n \in DOMAIN @ \cup {name} |-> IF n = name THEN value ELSE @[n]]]

RECURSIVE Get(_, _, _)
Get(heap, e, name) ==
    IF name.Lexeme \in DOMAIN heap[e].Values
    THEN [v |-> heap[e].Values[name.Lexeme], err |-> ""]
    ELSE IF heap[e].Enclosing # 0 THEN Get(heap, heap[e].Enclosing, name)
    ELSE [v |-> NilV, err |-> "Undefined variable " \o name.Lexeme \o "."]

\* assign reports an unknown name on standard output and returns nothing
RECURSIVE assign(_, _, _, _)
\* assign on an Enclosing that is a copy of the frame with its own map: the
\* write is lost when the owner is not the current frame
assignToCopy(heap, e, name, value) ==
    IF name.Lexeme \in DOMAIN heap[e].Values
    THEN [heap |-> [heap EXCEPT ![e].Values[name.Lexeme] = value], found |-> TRUE]
    ELSE IF heap[e].Enclosing # 0
    THEN [heap |-> heap,
          found |-> assign(heap, heap[e].Enclosing, name, value).found]
    ELSE [heap |-> heap, found |-> FALSE]

assign(heap, e, name, value) ==
    IF name.Lexeme \in DOMAIN heap[e].Values
    THEN [heap |-> [heap EXCEPT ![e].Values[name.Lexeme] = value], found |-> TRUE]
    ELSE IF heap[e].Enclosing # 0 THEN assign(heap, heap[e].Enclosing, name, value)
    ELSE [heap |-> heap, found |-> FALSE]

(***************************************************************************)
(* Interpreter (interpreter.go, golox_function.go).  The interpreter       *)
(* record holds the fields Environment and Globals (frame ids), the heap   *)
(* of frames, the standard output, and the history of the run:             *)
(*   log    the events of the run, in order                                *)
(*   call   the id of the running function activation, 0 at top level      *)
(*   fuel   the number of statements the run may still execute             *)
(* An error is a string, "" for nil.  A Go runtime panic and the           *)
(* exhaustion of fuel unwind like errors and are told apart by their text. *)
(***************************************************************************)
PanicErr == "panic: invalid memory address or nil pointer dereference"

CutErr == "cut: statement budget exhausted"

ER(it, v, err) == [it |-> it, v |-> v, err |-> err]

Log(it, ev) == [it EXCEPT !.log = Append(@, ev)]

\* a runtime error is created
Raise(it, msg) ==
    ER(Log(it, [e |-> "error", call |-> it.call, msg |-> msg]), NilV, msg)

Panic(it) == ER(Log(it, [e |-> "panic"]), NilV, PanicErr)

Println(it, line) == [it EXCEPT !.out = Append(@, line)]

\* %v of a []token.Token: the elements with blanks between them
RECURSIVE SprintTokens(_)
SprintTokens(tokens) ==
    IF tokens = <<>> THEN ""
    ELSE IF Len(tokens) = 1 THEN SprintToken(tokens[1])
    ELSE SprintToken(tokens[1]) \o " " \o SprintTokens(Tail(tokens))

\* %v of a []statement.Stmt: a pointer inside a struct is written as its
\* address, 0xc000... in a run
RECURSIVE SprintPointers(_)
SprintPointers(nodes) ==
    IF nodes = <<>> THEN ""
    ELSE IF Len(nodes) = 1 THEN "0xc000012345"
    ELSE "0xc000012345 " \o SprintPointers(Tail(nodes))

\* fmt.Println(value): the default format %v of Go. A struct is its fields in
\* braces and a pointer to a struct is the same after an ampersand.
Sprint(v) ==
    CASE v.t = "clock" -> "{}"
      [] v.t = "fn"    ->
            "&{{" \o SprintToken(v.Declaration.Name)
                  \o " [" \o SprintTokens(v.Declaration.Params) \o "]"
                  \o " [" \o SprintPointers(v.Declaration.Body) \o "]}}"
      [] OTHER         -> SprintBasic(v)

isTruthy(obj) ==
    CASE obj.t = "nil"  -> FALSE
      [] obj.t = "bool" -> obj.b
      [] OTHER          -> TRUE

\* a == b on interface values: same dynamic type and same value; NaN # NaN
isEqual(a, b) ==
    IF a.t = "nil" /\ b.t = "nil" THEN TRUE
    ELSE IF a.t = "nil" THEN FALSE
    ELSE a.t = b.t /\ a = b /\ ~(a.t = "float64" /\ a.d = 0 /\ a.n = 0)

checkNumberOperand(operand) ==
    IF operand.t = "float64" THEN "" ELSE "operand must be a number"

checkNumberOperands(left, right) ==
    IF left.t = "float64" /\ right.t = "float64" THEN ""
    ELSE "operands must be numbers"

\* float64 arithmetic on fractions; a fraction with d = 0 is Inf or NaN
IsNaN(a) == a.d = 0 /\ a.n = 0

FAdd(a, b) ==
    IF a.d = 0 /\ b.d = 0 THEN (IF a.n = b.n THEN a ELSE NumV(0, 0))
    ELSE IF a.d = 0 THEN a
    ELSE IF b.d = 0 THEN b
    ELSE NumV(a.n * b.d + b.n * a.d, a.d * b.d)

FNeg(a) == [a EXCEPT !.n = -@]

FSub(a, b) == FAdd(a, FNeg(b))

FMul(a, b) == NumV(a.n * b.n, a.d * b.d)

FDiv(a, b) ==
    IF a.d = 0 /\ b.d = 0 THEN NumV(0, 0)
    ELSE IF b.d = 0 THEN Num(0)
    ELSE NumV(a.n * b.d * (IF b.n < 0 THEN -1 ELSE 1), a.d * Abs(b.n))

FLess(a, b) ==
    IF IsNaN(a) \/ IsNaN(b) THEN FALSE
    ELSE IF a.d = 0 /\ b.d = 0 THEN a.n < b.n
    ELSE IF a.d = 0 THEN a.n < 0
    ELSE IF b.d = 0 THEN b.n > 0
    ELSE a.n * b.d < b.n * a.d

FLessEq(a, b) == ~IsNaN(a) /\ ~IsNaN(b) /\ ~FLess(b, a)

RECURSIVE evaluate(_, _)
RECURSIVE execute(_, _)
RECURSIVE EvalArguments(_, _, _)
RECURSIVE BlockStatements(_, _, _)
RECURSIVE WhileLoop(_, _, _)

VisitLiteralExpr(it, expr) == ER(it, expr.Value, "")

VisitGroupingExpr(it, expr) == evaluate(it, expr.Expression)

VisitVariableExpr(it, expr) ==
    With(Get(it.heap, it.Environment, expr.Name), LAMBDA g :
        IF g.err # ""
        THEN Raise(Log(it, [e |-> "undefined", op |-> "get",
                            name |-> expr.Name.Lexeme]), g.err)
        ELSE ER(it, g.v, ""))

VisitAssignExpr(it, expr) ==
    With(evaluate(it, expr.Value), LAMBDA value :
        IF value.err # "" THEN ER(value.it, NilV, value.err)
        ELSE With(assign(value.it.heap, value.it.Environment, expr.Name, value.v),
                  LAMBDA a :
                      IF a.found
                      THEN ER(Log([value.it EXCEPT !.heap = a.heap],
                                  [e |-> "assign", env |-> value.it.Environment,
                                   name |-> expr.Name.Lexeme, v |-> value.v,
                                   before |-> value.it.heap, after |-> a.heap]),
                              value.v, "")
                      ELSE ER(Println(Log(value.it,
                                          [e |-> "undefined", op |-> "assign",
                                           name |-> expr.Name.Lexeme]),
                                      [diag |-> "Undefined variable ' "
                                                \o expr.Name.Lexeme \o " '."]),
                              value.v, "")))

VisitLogicalExpr(it, expr) ==
    With(evaluate(it, expr.Left), LAMBDA left :
        IF left.err # "" THEN ER(left.it, NilV, left.err)
        ELSE IF expr.Operator.Type = "OR"
             THEN IF isTruthy(left.v) THEN left ELSE evaluate(left.it, expr.Right)
             ELSE IF ~isTruthy(left.v) THEN left ELSE evaluate(left.it, expr.Right))

\* for _, argument := range expr.Arguments { ... }
EvalArguments(it, args, arguments) ==
    IF args = <<>> THEN [it |-> it, arguments |-> arguments, err |-> ""]
    ELSE With(evaluate(it, Head(args)), LAMBDA res :
             IF res.err # "" THEN [it |-> res.it, arguments |-> <<>>, err |-> res.err]
             ELSE EvalArguments(res.it, Tail(args), Append(arguments, res.v)))

\* the loop of ExecuteBlock without its test of err
BlockStatementsKeepGoing(it, statements, res) ==
    IF statements = <<>> THEN ER(it, res, "")
    ELSE With(execute(it, Head(statements)), LAMBDA r :
             BlockStatements(r.it, Tail(statements), r.v))

\* for _, statement := range statements { res, err = i.execute(statement) ... }
BlockStatements(it, statements, res) ==
    IF statements = <<>> THEN ER(it, res, "")
    ELSE With(execute(it, Head(statements)), LAMBDA r :
             IF r.err # "" THEN ER(r.it, NilV, r.err)
             ELSE BlockStatements(r.it, Tail(statements), r.v))

\* a panic or the end of the statement budget is not a return of ExecuteBlock;
\* previous := i.Environment is it.Environment
ExecuteBlock(it, statements, environment) ==
    With(BlockStatements([it EXCEPT !.Environment = environment], statements, NilV),
         LAMBDA r :
             IF r.err \in {PanicErr, CutErr} THEN r
             ELSE IF r.err # ""
             THEN \* return nil, err: i.Environment is left as it is
                  ER(Log(r.it, [e |-> "blockExit", previous |-> it.Environment,
                                env |-> r.it.Environment, err |-> r.err]),
                     NilV, r.err)
             ELSE ER(Log([r.it EXCEPT !.Environment = it.Environment],
                         [e |-> "blockExit", previous |-> it.Environment,
                          env |-> it.Environment, err |-> ""]),
                     r.v, ""))

Arity(g) == Len(g.Declaration.Params)

\* the event of a call expression whose callee and arguments are evaluated
Applied(it, callee, arguments) ==
    [e |-> "apply", callable |-> callee.t = "fn",
     arity |-> IF callee.t = "fn" THEN Arity(callee) ELSE -1,
     nargs |-> Len(arguments), heap |-> it.heap]

RECURSIVE DefineParams(_, _, _, _)
DefineParams(heap, e, params, arguments) ==
    IF params = <<>> THEN heap
    ELSE DefineParams(Define(heap, e, Head(params).Lexeme, Head(arguments)),
                      e, Tail(params), Tail(arguments))

\* GoloxFunction.Call with the new frame enclosing the caller's current frame
FunctionCallInCallerFrame(it, g, arguments) ==
    With(NewEnvironment(it.heap, it.Environment), LAMBDA heap1 :
    With([it EXCEPT !.heap = DefineParams(heap1, Len(heap1),
                                          g.Declaration.Params, arguments),
                    !.ncalls = it.ncalls + 1,
                    !.call = it.ncalls + 1], LAMBDA it1 :
    With(ExecuteBlock(Log(it1, [e |-> "call", call |-> it1.call,
                                caller |-> it.call, env |-> Len(heap1),
                                callerEnv |-> it.Environment,
                                params |-> g.Declaration.Params,
                                arguments |-> arguments, heap |-> it1.heap]),
                      g.Declaration.Body, Len(heap1)), LAMBDA r :
        ER(Log([r.it EXCEPT !.call = it.call],
               [e |-> "callEnd", call |-> it1.call, v |-> r.v, err |-> r.err,
                env |-> r.it.Environment, heap |-> r.it.heap]),
           r.v, r.err))))

\* a Call that binds the parameters in the frame of Globals and runs the body
\* there, without a frame of its own
FunctionCallInGlobals(it, g, arguments) ==
    With([it EXCEPT !.heap = DefineParams(it.heap, it.Globals,
                                          g.Declaration.Params, arguments),
                    !.ncalls = it.ncalls + 1,
                    !.call = it.ncalls + 1], LAMBDA it1 :
    With(ExecuteBlock(Log(it1, [e |-> "call", call |-> it1.call,
                                caller |-> it.call, env |-> it.Globals,
                                callerEnv |-> it.Environment,
                                params |-> g.Declaration.Params,
                                arguments |-> arguments, heap |-> it1.heap]),
                      g.Declaration.Body, it.Globals), LAMBDA r :
        ER(Log([r.it EXCEPT !.call = it.call],
               [e |-> "callEnd", call |-> it1.call, v |-> r.v, err |-> r.err,
                env |-> r.it.Environment, heap |-> r.it.heap]),
           r.v, r.err)))

\* GoloxFunction.Call: the new frame encloses Globals and is the last of the
\* heap; the activation gets the next call id
FunctionCall(it, g, arguments) ==
    With(NewEnvironment(it.heap, it.Globals), LAMBDA heap1 :
    With([it EXCEPT !.heap = DefineParams(heap1, Len(heap1),
                                          g.Declaration.Params, arguments),
                    !.ncalls = it.ncalls + 1,
                    !.call = it.ncalls + 1], LAMBDA it1 :
    With(ExecuteBlock(Log(it1, [e |-> "call", call |-> it1.call,
                                caller |-> it.call, env |-> Len(heap1),
                                callerEnv |-> it.Environment,
                                params |-> g.Declaration.Params,
                                arguments |-> arguments, heap |-> it1.heap]),
                      g.Declaration.Body, Len(heap1)), LAMBDA r :
        ER(Log([r.it EXCEPT !.call = it.call],
               [e |-> "callEnd", call |-> it1.call, v |-> r.v, err |-> r.err,
                env |-> r.it.Environment, heap |-> r.it.heap]),
           r.v, r.err))))

\* VisitCallExpr whose arity test lets a call with too many arguments through
VisitCallExprAtLeastArity(it, expr) ==
    With(evaluate(it, expr.Callee), LAMBDA callee :
    IF callee.err # "" THEN ER(callee.it, NilV, callee.err) ELSE
    With(EvalArguments(callee.it, expr.Arguments, <<>>), LAMBDA args :
    IF args.err # "" THEN ER(args.it, NilV, args.err) ELSE
    With(Log(args.it, Applied(args.it, callee.v, args.arguments)), LAMBDA it1 :
    IF callee.v.t # "fn"
    THEN Raise(it1, "Callee is not a golox callable.")
    ELSE IF Len(args.arguments) < Arity(callee.v)
    THEN Raise(it1, "Expected arguments but got another number.")
    ELSE With(FunctionCall(it1, callee.v, args.arguments), LAMBDA fnCall :
             IF fnCall.err # "" THEN ER(fnCall.it, NilV, fnCall.err)
             ELSE fnCall))))

\* the callee and the arguments are evaluated first; the apply event records
\* what is about to be called, and the heap at that point
VisitCallExpr(it, expr) ==
    With(evaluate(it, expr.Callee), LAMBDA callee :
    IF callee.err # "" THEN ER(callee.it, NilV, callee.err) ELSE
    With(EvalArguments(callee.it, expr.Arguments, <<>>), LAMBDA args :
    IF args.err # "" THEN ER(args.it, NilV, args.err) ELSE
    With(Log(args.it, Applied(args.it, callee.v, args.arguments)), LAMBDA it1 :
    IF callee.v.t # "fn"
    THEN Raise(it1, "Callee is not a golox callable.")
    ELSE IF Len(args.arguments) # Arity(callee.v)
    THEN Raise(it1, "Expected arguments but got another number.")
    ELSE With(FunctionCall(it1, callee.v, args.arguments), LAMBDA fnCall :
             IF fnCall.err # "" THEN ER(fnCall.it, NilV, fnCall.err)
             ELSE fnCall))))

VisitUnaryExpr(it, expr) ==
    With(evaluate(it, expr.Right), LAMBDA right :
        IF right.err # "" THEN ER(right.it, NilV, right.err)
        ELSE CASE expr.Operator.Type = "-" ->
                    IF checkNumberOperand(right.v) # ""
                    THEN Raise(right.it, checkNumberOperand(right.v))
                    ELSE ER(right.it, FNeg(right.v), "")
               [] expr.Operator.Type = "!" ->
                    ER(right.it, BoolV(~isTruthy(right.v)), "")
               [] OTHER -> ER(right.it, NilV, ""))

\* a switch whose + leaves the other combinations to the return after it
BinaryOpPlusFallsThrough(it, op, l, r) ==
    LET numeric(result) ==
            IF checkNumberOperands(l, r) # ""
            THEN Raise(it, checkNumberOperands(l, r))
            ELSE ER(it, result, "")
    IN  CASE op = "!=" -> ER(it, BoolV(~isEqual(l, r)), "")
          [] op = "==" -> ER(it, BoolV(isEqual(l, r)), "")
          [] op = ">"  -> numeric(BoolV(FLess(r, l)))
          [] op = ">=" -> numeric(BoolV(FLessEq(r, l)))
          [] op = "<"  -> numeric(BoolV(FLess(l, r)))
          [] op = "<=" -> numeric(BoolV(FLessEq(l, r)))
          [] op = "-"  -> numeric(FSub(l, r))
          [] op = "+"  ->
                IF l.t = "string" /\ r.t = "string"
                THEN ER(it, StrV(l.s \o r.s), "")
                ELSE IF l.t = "float64" /\ r.t = "float64"
                THEN ER(it, FAdd(l, r), "")
                ELSE ER(it, NilV, "")
          [] op = "/"  -> numeric(FDiv(l, r))
          [] op = "*"  -> numeric(FMul(l, r))
          [] OTHER     -> ER(it, NilV, "")

\* the switch of VisitBinaryExpr on the operator, both operands evaluated
BinaryOp(it, op, l, r) ==
    LET numeric(result) ==
            IF checkNumberOperands(l, r) # ""
            THEN Raise(it, checkNumberOperands(l, r))
            ELSE ER(it, result, "")
    IN  CASE op = "!=" -> ER(it, BoolV(~isEqual(l, r)), "")
          [] op = "==" -> ER(it, BoolV(isEqual(l, r)), "")
          [] op = ">"  -> numeric(BoolV(FLess(r, l)))
          [] op = ">=" -> numeric(BoolV(FLessEq(r, l)))
          [] op = "<"  -> numeric(BoolV(FLess(l, r)))
          [] op = "<=" -> numeric(BoolV(FLessEq(l, r)))
          [] op = "-"  -> numeric(FSub(l, r))
          [] op = "+"  ->
                IF l.t = "string" /\ r.t = "string"
                THEN ER(it, StrV(l.s \o r.s), "")
                ELSE IF l.t = "float64" /\ r.t = "float64"
                THEN ER(it, FAdd(l, r), "")
                ELSE Raise(it, "operands must be two numbers or two strings")
          [] op = "/"  -> numeric(FDiv(l, r))
          [] op = "*"  -> numeric(FMul(l, r))
          [] OTHER     -> ER(it, NilV, "")

VisitBinaryExpr(it, expr) ==
    With(evaluate(it, expr.Left), LAMBDA left :
    IF left.err # "" THEN ER(left.it, NilV, left.err) ELSE
    With(evaluate(left.it, expr.Right), LAMBDA right :
    IF right.err # "" THEN ER(right.it, NilV, right.err)
    ELSE BinaryOp(right.it, expr.Operator.Type, left.v, right.v)))

\* expr.Accept(i): the method call on a nil interface value panics
evaluate(it, expr) ==
    CASE expr.k = "nil"      -> Panic(it)
      [] expr.k = "Literal"  -> VisitLiteralExpr(it, expr)
      [] expr.k = "Grouping" -> VisitGroupingExpr(it, expr)
      [] expr.k = "Variable" -> VisitVariableExpr(it, expr)
      [] expr.k = "Assign"   -> VisitAssignExpr(it, expr)
      [] expr.k = "Logical"  -> VisitLogicalExpr(it, expr)
      [] expr.k = "Call"     -> VisitCallExpr(it, expr)
      [] expr.k = "Unary"    -> VisitUnaryExpr(it, expr)
      [] expr.k = "Binary"   -> VisitBinaryExpr(it, expr)

VisitExpressionStmt(it, stmt) == evaluate(it, stmt.Expression)

VisitPrintStmt(it, stmt) ==
    With(evaluate(it, stmt.Expression), LAMBDA value :
        IF value.err # "" THEN ER(value.it, NilV, value.err)
        ELSE ER(Println(Log(value.it, [e |-> "print", call |-> value.it.call]),
                        [print |-> value.v, text |-> Sprint(value.v)]),
                value.v, ""))

VisitVarStmt(it, stmt) ==
    With(IF stmt.Initializer # NilNode THEN evaluate(it, stmt.Initializer)
         ELSE ER(it, NilV, ""),
         LAMBDA value :
             IF value.err # "" THEN ER(value.it, NilV, value.err)
             ELSE With(Define(value.it.heap, value.it.Environment,
                              stmt.Name.Lexeme, value.v),
                       LAMBDA heap1 :
                           ER(Log([value.it EXCEPT !.heap = heap1],
                                  [e |-> "define", env |-> value.it.Environment,
                                   name |-> stmt.Name.Lexeme, v |-> value.v,
                                   before |-> value.it.heap, after |-> heap1]),
                              NilV, "")))

VisitBlockStmt(it, stmt) ==
    With(NewEnvironment(it.heap, it.Environment), LAMBDA heap1 :
        ExecuteBlock([it EXCEPT !.heap = heap1], stmt.Statements, Len(heap1)))

VisitIfStmt(it, stmt) ==
    With(evaluate(it, stmt.Condition), LAMBDA res :
        IF res.err # "" THEN ER(res.it, NilV, res.err)
        ELSE IF isTruthy(res.v) THEN execute(res.it, stmt.ThenBranch)
        ELSE IF stmt.ElseBranch # NilNode THEN execute(res.it, stmt.ElseBranch)
        ELSE ER(res.it, NilV, ""))

\* for i.isTruthy(res) { execute body; res, err = evaluate condition }
WhileLoop(it, stmt, res) ==
    IF isTruthy(res)
    THEN With(execute(it, stmt.Body), LAMBDA body :
             IF body.err # "" THEN ER(body.it, NilV, body.err)
             ELSE With(evaluate(body.it, stmt.Condition), LAMBDA cond :
                      IF cond.err # "" THEN ER(cond.it, NilV, cond.err)
                      ELSE WhileLoop(cond.it, stmt, cond.v)))
    ELSE ER(it, NilV, "")

VisitWhileStmt(it, stmt) ==
    With(evaluate(it, stmt.Condition), LAMBDA res :
        IF res.err # "" THEN ER(res.it, NilV, res.err)
        ELSE WhileLoop(res.it, stmt, res.v))

\* the function value is a pointer to a new GoloxFunction: id is its identity
VisitFunctionStmt(it, stmt) ==
    ER([it EXCEPT !.nfun = @ + 1,
                  !.heap = Define(@, it.Environment, stmt.Name.Lexeme,
                                  [t |-> "fn", id |-> it.nfun + 1,
                                   Declaration |-> stmt])],
       NilV, "")

VisitReturnStmt(it, stmt) ==
    With(IF stmt.Value # NilNode THEN evaluate(it, stmt.Value)
         ELSE ER(it, NilV, ""),
         LAMBDA value :
             IF value.err # "" THEN ER(value.it, NilV, value.err)
             ELSE ER(Log(value.it, [e |-> "return", call |-> value.it.call,
                                    v |-> value.v]),
                     value.v, ""))

\* stmt.Accept(i); a nil statement, and the dereference of a nil
\* *statement.Function in VisitFunctionStmt, panic
Accept(it, stmt) ==
    CASE stmt.k = "nil"         -> Panic(it)
      [] stmt.k = "nilFunction" -> Panic(it)
      [] stmt.k = "Block"       -> VisitBlockStmt(it, stmt)
      [] stmt.k = "Expression"  -> VisitExpressionStmt(it, stmt)
      [] stmt.k = "Function"    -> VisitFunctionStmt(it, stmt)
      [] stmt.k = "If"          -> VisitIfStmt(it, stmt)
      [] stmt.k = "Print"       -> VisitPrintStmt(it, stmt)
      [] stmt.k = "Return"      -> VisitReturnStmt(it, stmt)
      [] stmt.k = "Var"         -> VisitVarStmt(it, stmt)
      [] stmt.k = "While"       -> VisitWhileStmt(it, stmt)

execute(it, stmt) ==
    IF it.fuel = 0 THEN ER(it, NilV, CutErr)
    ELSE Accept(Log([it EXCEPT !.fuel = @ - 1],
                    [e |-> "exec", call |-> it.call, k |-> stmt.k]),
                stmt)

MaxSteps == 18

\* the Interpreter literal of run(); out is the standard output of the process
InterpreterNew(out) ==
    [heap |-> <<GlobalEnv>>, Environment |-> 1, Globals |-> 1,
     out |-> out, log |-> <<>>, call |-> 0, ncalls |-> 0, nfun |-> 0,
     fuel |-> MaxSteps]

(***************************************************************************)
(* Inputs.  A script is a sequence of statements drawn from Snippets, one  *)
(* of the Scripts, or a print of a logical expression over Operands.       *)
(***************************************************************************)
MaxStmts == 2

MaxLines == 2

Snippets ==
    { "print 1;", "print 2", "print (3;", "print ;", "var a = 4;", "print a;",
      "b = 5;", "print -\"s\";", "return 6;", "{ print 7; print c; print 8; }",
      "fun f() { print 9; }", "print f();" }

RECURSIVE Joined(_)
Joined(parts) ==
    IF Len(parts) = 1 THEN parts[1] ELSE parts[1] \o " " \o Joined(Tail(parts))

SnippetSources ==
    { Joined(parts) : parts \in UNION { [1..n -> Snippets] : n \in 1..MaxStmts } }

Operands == { "nil", "false", "true", "0", "\"s\"", "u" }

LogicalSource(a, op, b) == "print " \o a \o " " \o op \o " " \o b \o ";"

LogicalSources ==
    { LogicalSource(a, op, b) : a \in Operands, op \in {"or", "and"}, b \in Operands }

Scripts ==
    { "print nil or \"hi\"; print \"a\" and \"b\";",
      "fun f(a, b) { return a + b; } print f(3, 4);",
      "fun f() { return 1; print 2; } print f();",
      "fun f(a) { if (a) { return 1; } print 2; } print f(true); print f(false);",
      "fun f() { while (true) { return 1; } } print f();",
      "fun f() { var a = 1; a = 2; } print f();",
      "fun f(a) { print a; print a + 1; print 3; } print f(\"s\"); print 4;",
      "fun f(a) { print a; } f(); print 1;",
      "var i = 0; while (i < 2) { print i; i = i + 1; print -nil; }",
      "var a = 1; { var a = 2; { print b; } print a; } print a;",
      "{ { print 1; } print 2; } print 3;",
      "var a = 1; a(); print a;",
      "fun f(a) { print a; } f(1, 2); print 3;",
      "if (c) print 1; else print 2; print 3;",
      "var a = 1; { var a = 2; fun f() { print a; } f(); }",
      "fun f() { print b; } { var b = 2; f(); }",
      "var a = 1; { var a = 2; { a = 3; print a; } print a; } print a;",
      "var a = 1; fun f() { a = 2; } f(); print a;",
      "var x = 1; { var x = 2; print x; } print x;",
      "print (1 2 print 3;",
      "print (1 2 return 3;",
      "print (1 2 3; print 4;",
      "for (var i = 0; ; i = i + 1) print i;",
      "for (;;) print 1;",
      "for (var i = 0; i < 1;) print i;",
      "a = b = c;",
      "1 = 2;",
      "(a) = 2;",
      "a + b = 2;",
      "var a; var b; a = b = 3; print a;",
      "1 + ;",
      "print ();",
      ") 1; print 2;",
      "= 1; print 2;",
      "fun f(n) { if (n > 0) { f(n - 1); } print n; } f(2);",
      "fun f(n) { var m = n * 10; if (n > 0) f(n - 1); print m + n; } f(1);",
      "fun g(a) { a = a + 1; print a; } fun f(a) { var b = a; { var c = b; g(5); print c; } print a + b; } f(1);" }

\* texts for the scanner: newlines, comments, strings over two lines,
\* unterminated strings, characters that start no token, two-character operators
\* the input of TestToken
TestTokenInput ==
    "( ) { } , . - + ; * ! != == = <= < >= > / test //end \n\t\"\" $"

ScanSources ==
    { "",
      "print 1;\nprint 2;\n",
      "print \"a\nb\";\nprint 3;",
      "// c\nprint 1; // d",
      "print \"abc\n",
      "@print 1;",
      "print 1; # print 2;\n\"",
      "var a = 1.5;\r\n\tprint a >= 1 != !true;",
      TestTokenInput,
      "a === !== <== >== b;",
      "1 / 2; //3 / 4\n5;" }

\* for statements with the three clauses, after a declaration of i or alone
ForPrefixes == { "", "var i = 1; " }

ForInits == { "var i = 0;", "i = 0;" }

ForBodies == { "print i;", "{ print i; }" }

ForSource(prefix, init, body) ==
    prefix \o "for (" \o init \o " i < 3; i = i + 1) " \o body

ForSources ==
    { ForSource(prefix, init, body) :
          prefix \in ForPrefixes, init \in ForInits, body \in ForBodies }

\* print of one arithmetic or comparison operator on operands of each type
ArithOperands == { "6", "3", "\"a\"", "\"b\"", "nil", "true" }

ArithOperators == { "-", "*", "/", "<", "<=", ">", ">=", "+" }

BinarySource(a, op, b) == "print " \o a \o " " \o op \o " " \o b \o ";"

NegateSource(a) == "print -" \o a \o ";"

ArithSources ==
    { BinarySource(a, op, b) :
          a \in ArithOperands, op \in ArithOperators, b \in ArithOperands }
        \cup { NegateSource(a) : a \in ArithOperands }
        \cup { "print \"a\" + 1;" }

\* print of a value of each type
DisplaySources ==
    { "print nil;", "print true;", "print false;", "print \"hi\";",
      "print 2.5;", "fun f(a) { print a; } print f;", "print clock;" }

\* text repeated n times
RECURSIVE Repeat(_, _)
Repeat(text, n) ==
    IF n = 0 THEN ""
    ELSE IF n = 1 THEN text
    ELSE Repeat(text, n \div 2) \o Repeat(text, n - (n \div 2))

\* a call with n arguments and a declaration with n parameters, n > 0
CallWith(n) == "f(1" \o Repeat(",1", n - 1) \o ");"

FunctionWith(n) == "fun f(a" \o Repeat(",a", n - 1) \o "){}"

\* the longest lists the language allows, and lists one longer
ListSources ==
    { CallWith(255), CallWith(256), FunctionWith(255), FunctionWith(256) }

Sources ==
    SnippetSources \cup LogicalSources \cup Scripts \cup ScanSources
        \cup ForSources \cup ArithSources \cup DisplaySources \cup ListSources

\* the lines typed at the prompt
Lines == { "print 1;", "print 2", "print c;", "var a = 3; print a;" }

Inputs == UNION { [1..n -> Lines] : n \in 0..MaxLines }

(***************************************************************************)
(* The driver (main.go): main, runFile, runPromt and run.                  *)
(***************************************************************************)
VARIABLES
    mode,     \* "file": golox script; "prompt": golox without argument
    stdin,    \* the lines not yet read from standard input
    pc,       \* the position of the driver
    source,   \* the argument of the running run(source)
    ps,       \* the parser and the locals of Parse
    it,       \* the Interpreter of run
    rest,     \* the statements Interpret still has to execute
    stdout,   \* everything written to standard output
    status    \* how the process ended: "" while it runs

vars == <<mode, stdin, pc, source, ps, it, rest, stdout, status>>

NoParse ==
    [p |-> ParserNew(<<>>), statements |-> <<>>, isError |-> FALSE, diag |-> <<>>]

Init ==
    /\ mode \in {"file", "prompt"}
    /\ pc = "main"
    /\ source \in IF mode = "file" THEN Sources ELSE {""}
    /\ stdin \in IF mode = "prompt" THEN Inputs ELSE {<<>>}
    /\ ps = NoParse
    /\ it = InterpreterNew(<<>>)
    /\ rest = <<>>
    /\ stdout = <<>>
    /\ status = ""

\* main with one argument: runFile reads the file and calls run
RunFile ==
    /\ pc = "main" /\ mode = "file"
    /\ pc' = "scan"
    /\ UNCHANGED <<mode, stdin, source, ps, it, rest, stdout, status>>

\* runPromt: the prompt is printed and a line is read
PromptRead ==
    /\ mode = "prompt" /\ pc \in {"main", "prompt"}
    /\ stdin # <<>>
    /\ stdout' = Append(stdout, [prompt |-> "> "])
    /\ source' = Head(stdin)
    /\ stdin' = Tail(stdin)
    /\ pc' = "scan"
    /\ UNCHANGED <<mode, ps, it, rest, status>>

\* runPromt at end of input: ReadString returns "" and io.EOF, the loop breaks
PromptEOF ==
    /\ mode = "prompt" /\ pc \in {"main", "prompt"}
    /\ stdin = <<>>
    /\ stdout' = stdout \o <<[prompt |-> "> "], [diag |-> "EOF"]>>
    /\ pc' = "exited"
    /\ status' = "exit 0"
    /\ UNCHANGED <<mode, stdin, source, ps, it, rest>>

DiagLines(diag) ==
    [j \in 1..Len(diag) |->
        IF "println" \in DOMAIN diag[j] THEN diag[j]
        ELSE [diag |-> diag[j].msg, line |-> diag[j].line]]

\* run: scanner.New(source).ScanTokens() and the Parser literal
Scan ==
    /\ pc = "scan"
    /\ \E s \in {ScanTokens(source)} :
           /\ ps' = [p |-> ParserNew(s.Tokens), statements |-> <<>>,
                     isError |-> FALSE, diag |-> <<>>]
           /\ stdout' = stdout \o DiagLines(s.Diag)
    /\ pc' = "parse"
    /\ UNCHANGED <<mode, stdin, source, it, rest, status>>

\* one iteration of the loop of Parse
ParseStep ==
    /\ pc = "parse"
    /\ ~isAtEnd(ps.p)
    /\ ps' = ParseIteration(ps)
    /\ stdout' = stdout \o DiagLines(SubSeq(ps'.diag, Len(ps.diag) + 1, Len(ps'.diag)))
    /\ UNCHANGED <<mode, stdin, pc, source, it, rest, status>>

\* Parse returns; run builds the global environment and the interpreter and
\* calls Interpret(statements), whatever Parse reported
ParseReturn ==
    /\ pc = "parse"
    /\ isAtEnd(ps.p)
    /\ it' = InterpreterNew(stdout)
    /\ rest' = ps.statements
    /\ pc' = "interpret"
    /\ UNCHANGED <<mode, stdin, source, ps, stdout, status>>

\* one iteration of the loop of Interpret, without error
InterpretStep ==
    /\ pc = "interpret"
    /\ rest # <<>>
    /\ \E r \in {execute(it, Head(rest))} :
           /\ r.err = ""
           /\ it' = r.it
           /\ stdout' = r.it.out
    /\ rest' = Tail(rest)
    /\ UNCHANGED <<mode, stdin, pc, source, ps, status>>

\* the statement returned an error: fmt.Println(err); os.Exit(1)
InterpretExit ==
    /\ pc = "interpret"
    /\ rest # <<>>
    /\ \E r \in {execute(it, Head(rest))} :
           /\ r.err \notin {"", PanicErr, CutErr}
           /\ it' = r.it
           /\ stdout' = Append(r.it.out, [err |-> r.err])
    /\ pc' = "exited"
    /\ status' = "exit 1"
    /\ UNCHANGED <<mode, stdin, source, ps, rest>>

\* the statement panicked: the Go runtime ends the process
InterpretPanic ==
    /\ pc = "interpret"
    /\ rest # <<>>
    /\ \E r \in {execute(it, Head(rest))} :
           /\ r.err = PanicErr
           /\ it' = r.it
           /\ stdout' = r.it.out
    /\ pc' = "exited"
    /\ status' = "panic"
    /\ UNCHANGED <<mode, stdin, source, ps, rest>>

\* the statement is still running after MaxSteps statements: the run is
\* not followed further
InterpretCut ==
    /\ pc = "interpret"
    /\ rest # <<>>
    /\ \E r \in {execute(it, Head(rest))} :
           /\ r.err = CutErr
           /\ it' = r.it
           /\ stdout' = r.it.out
    /\ pc' = "cut"
    /\ UNCHANGED <<mode, stdin, source, ps, rest, status>>

\* Interpret and run return: runFile and main return, runPromt loops
InterpretReturn ==
    /\ pc = "interpret"
    /\ rest = <<>>
    /\ IF mode = "file"
       THEN pc' = "exited" /\ status' = "exit 0"
       ELSE pc' = "prompt" /\ status' = status
    /\ UNCHANGED <<mode, stdin, source, ps, it, rest, stdout>>

Next ==
    \/ RunFile
    \/ PromptRead
    \/ PromptEOF
    \/ Scan
    \/ ParseStep
    \/ ParseReturn
    \/ InterpretStep
    \/ InterpretExit
    \/ InterpretPanic
    \/ InterpretCut
    \/ InterpretReturn

Spec == Init /\ [][Next]_vars

(***************************************************************************)
(* Properties.  The interpreter's log is the history of the run in         *)
(* progress: exec (a statement starts), print, return (a Return statement  *)
(* has computed its value), call and callEnd (a user function is entered   *)
(* and left), blockExit (ExecuteBlock returns), undefined (a name is in no *)
(* frame of the chain), error (a runtime error is created), panic.         *)
(***************************************************************************)
Events == DOMAIN it.log

Ev(i) == it.log[i]

\* the values written by print statements, in order
Printed == LET lines == SelectSeq(stdout, LAMBDA l : "print" \in DOMAIN l)
           IN  [j \in 1..Len(lines) |-> lines[j].print]

\* ps and it belong to the same run(source), and Parse has returned
Parsed == pc \in {"interpret", "prompt", "exited", "cut"} /\ ps # NoParse

\* run(source) is over
RunOver == pc \in {"prompt", "exited"} /\ ps # NoParse

\* C1: a return executed in a user function ends that call: no statement of
\* the same call is executed (and nothing is printed by it) after the return,
\* and the call yields the returned value.
C1_ReturnEndsCall ==
    \A i \in Events :
        Ev(i).e = "return" /\ Ev(i).call # 0 =>
            \A j \in Events :
                j > i =>
                    /\ ~(Ev(j).e \in {"exec", "print"} /\ Ev(j).call = Ev(i).call)
                    /\ (Ev(j).e = "callEnd" /\ Ev(j).call = Ev(i).call
                        /\ Ev(j).err = "" => Ev(j).v = Ev(i).v)

\* C2: a call of a user function yields the value of the Return statement it
\* executed, and nil when its body ran to the end without executing a Return.
C2_CallYields ==
    \A j \in Events :
        Ev(j).e = "callEnd" /\ Ev(j).err = "" =>
            LET returns == { i \in Events : Ev(i).e = "return"
                                            /\ Ev(i).call = Ev(j).call }
            IN  IF returns = {} THEN Ev(j).v = NilV
                ELSE Ev(j).v = Ev(CHOOSE i \in returns :
                                      \A i2 \in returns : i <= i2).v

\* C3: when ExecuteBlock returns, normally or with a runtime error, the
\* interpreter's current environment is the one it had on entry.
C3_BlockRestoresEnvironment ==
    \A i \in Events : Ev(i).e = "blockExit" => Ev(i).env = Ev(i).previous

\* C4: when Parse reports an error the driver executes nothing: no statement
\* of that source is executed and no print statement of it writes anything.
C4_NoExecutionAfterParseError ==
    Parsed /\ ps.isError =>
        \A i \in Events : Ev(i).e \notin {"exec", "print", "panic"}

RECURSIVE WellFormedExpr(_)
WellFormedExpr(expr) ==
    CASE expr.k = "nil"      -> FALSE
      [] expr.k = "Literal"  -> TRUE
      [] expr.k = "Variable" -> TRUE
      [] expr.k = "Grouping" -> WellFormedExpr(expr.Expression)
      [] expr.k = "Assign"   -> WellFormedExpr(expr.Value)
      [] expr.k = "Unary"    -> expr.Operator # ZeroToken /\ WellFormedExpr(expr.Right)
      [] expr.k \in {"Binary", "Logical"} ->
            /\ expr.Operator # ZeroToken
            /\ WellFormedExpr(expr.Left)
            /\ WellFormedExpr(expr.Right)
      [] expr.k = "Call" ->
            /\ WellFormedExpr(expr.Callee)
            /\ \A a \in DOMAIN expr.Arguments : WellFormedExpr(expr.Arguments[a])

RECURSIVE WellFormedStmt(_)
WellFormedStmt(stmt) ==
    CASE stmt.k \in {"nil", "nilFunction"} -> FALSE
      [] stmt.k \in {"Expression", "Print"} -> WellFormedExpr(stmt.Expression)
      [] stmt.k = "Var" ->
            stmt.Initializer = NilNode \/ WellFormedExpr(stmt.Initializer)
      [] stmt.k = "Return" -> stmt.Value = NilNode \/ WellFormedExpr(stmt.Value)
      [] stmt.k = "Block" ->
            \A j \in DOMAIN stmt.Statements : WellFormedStmt(stmt.Statements[j])
      [] stmt.k = "Function" ->
            \A j \in DOMAIN stmt.Body : WellFormedStmt(stmt.Body[j])
      [] stmt.k = "If" ->
            /\ WellFormedExpr(stmt.Condition)
            /\ WellFormedStmt(stmt.ThenBranch)
            /\ (stmt.ElseBranch = NilNode \/ WellFormedStmt(stmt.ElseBranch))
      [] stmt.k = "While" ->
            WellFormedExpr(stmt.Condition) /\ WellFormedStmt(stmt.Body)

\* C5: every entry of the statement list of Parse is a complete statement,
\* with or without errors: no entry is nil, none holds an empty expression.
C5_StatementsWellFormed ==
    \A j \in DOMAIN ps.statements : WellFormedStmt(ps.statements[j])

\* a statement missing its ";" and a statement missing its ")"
BrokenSnippets == { "print 2", "print (3;" }

\* the complete statements among the snippets
ValidSnippets ==
    { v \in Snippets :
        LET alone == Parse(ScanTokens(v).Tokens)
        IN  ~alone.isError /\ Len(alone.statements) = 1
            /\ WellFormedStmt(alone.statements[1]) }

\* C6: when one statement lacks its ";" or its ")", Parse reports the error
\* and every valid statement after the broken one is in the returned list.
C6_ParsesPastBrokenStatement ==
    \A b \in BrokenSnippets, v \in ValidSnippets :
        Parsed /\ source = Joined(<<b, v>>) =>
            /\ ps.isError
            /\ \E j \in DOMAIN ps.statements :
                   ps.statements[j] = Parse(ScanTokens(v).Tokens).statements[1]

OperandValue(a) ==
    CASE a = "nil"   -> NilV
      [] a = "false" -> BoolV(FALSE)
      [] a = "true"  -> BoolV(TRUE)
      [] a = "0"     -> Num(0)
      [] a = "\"s\"" -> StrV("s")

\* what print a op b; prints: the operand itself; u is an undefined variable,
\* whose evaluation ends the run before anything is printed
LogicalPrints(a, op, b) ==
    IF a = "u" THEN <<>>
    ELSE IF (op = "or") = isTruthy(OperandValue(a)) THEN <<OperandValue(a)>>
    ELSE IF b = "u" THEN <<>>
    ELSE <<OperandValue(b)>>

\* C7: run end to end, a or b is a when a is truthy and b otherwise, a and b
\* is a when a is falsey and b otherwise; the result is the operand itself and
\* the right operand is not evaluated when the left one decides.
C7_LogicalOperators ==
    RunOver /\ mode = "file" =>
        /\ \A a \in Operands, op \in {"or", "and"}, b \in Operands :
               source = LogicalSource(a, op, b) => Printed = LogicalPrints(a, op, b)
        /\ (source = "print nil or \"hi\"; print \"a\" and \"b\";"
               => Printed = <<StrV("hi"), StrV("b")>>)

\* C8: reading or assigning a name that no frame of the chain defines is a
\* runtime error, and no later statement is executed.
C8_UndefinedIsError ==
    \A i \in Events :
        Ev(i).e = "undefined" =>
            /\ i + 1 \in Events /\ Ev(i + 1).e = "error"
            /\ \A j \in Events : j > i => Ev(j).e \notin {"exec", "print"}

\* C9: a runtime error ends the run where it is raised: after it no statement
\* is executed and nothing is printed, in the enclosing blocks, loops and
\* function bodies as at top level, and the process exits with status 1.
C9_RuntimeErrorEndsRun ==
    \A i \in Events :
        Ev(i).e = "error" =>
            /\ \A j \in Events : j > i => Ev(j).e \notin {"exec", "print", "call"}
            /\ pc = "exited" /\ status = "exit 1"

\* a runtime error raised inside a function body, with statements left to run
C9_Witness ==
    /\ status = "exit 1"
    /\ Len(rest) >= 2
    /\ \E i \in Events : Ev(i).e = "error" /\ Ev(i).call # 0
    /\ Printed # <<>>

\* C10: at the prompt an error in a line does not end the loop: the loop
\* ends only at the end of the input.
C10_PromptSurvivesErrors ==
    mode = "prompt" /\ pc = "exited" => status = "exit 0" /\ stdin = <<>>

\* C11: a call of a value that is not callable, or of a callable with a
\* number of arguments other than its arity, raises a runtime error at once:
\* the body is not entered and no parameter is bound (the heap of frames is
\* the one the call expression found).
C11_BadCallIsError ==
    \A i \in Events :
        Ev(i).e = "apply" /\ (~Ev(i).callable \/ Ev(i).nargs # Ev(i).arity) =>
            /\ i + 1 \in Events /\ Ev(i + 1).e = "error"
            /\ \A j \in Events : j > i => Ev(j).e \notin {"call", "exec"}
            /\ it.heap = Ev(i).heap

\* a function called with more arguments than it has parameters: the run
\* ended by the error, with a statement left unexecuted
C11_Witness ==
    /\ status = "exit 1"
    /\ \E i \in Events :
           /\ Ev(i).e = "apply"
           /\ Ev(i).callable /\ Ev(i).nargs > Ev(i).arity
    /\ rest # <<>>


\* C12: the body of a called user function runs in a fresh frame whose
\* enclosing frame is the global frame, wherever the function is declared or
\* called: a free name of the body resolves in the global frame, not in a
\* frame of the declaring block or of the caller.
C12_CallFrameEnclosesGlobals ==
    /\ \A i \in Events :
           Ev(i).e = "call" =>
               /\ i - 1 \in Events /\ Ev(i - 1).e = "apply"
               /\ Ev(i).env = Len(Ev(i - 1).heap) + 1
               /\ it.heap[Ev(i).env].Enclosing = it.Globals
    /\ RunOver /\ source = "var a = 1; { var a = 2; fun f() { print a; } f(); }"
           => Printed = <<Num(1)>>
    /\ RunOver /\ source = "fun f() { print b; } { var b = 2; f(); }"
           => Printed = <<>> /\ status = "exit 1"

\* a function declared and called in a block that shadows a global has run
C12_Witness ==
    /\ RunOver /\ source = "var a = 1; { var a = 2; fun f() { print a; } f(); }"
    /\ \E i \in Events : Ev(i).e = "call" /\ it.heap[Ev(i).env].Enclosing = 1
    /\ Len(it.heap) = 3
    /\ Printed # <<>>


\* the innermost frame of the chain of e that owns name, 0 when none does
RECURSIVE Owner(_, _, _)
Owner(heap, e, name) ==
    IF name \in DOMAIN heap[e].Values THEN e
    ELSE IF heap[e].Enclosing # 0 THEN Owner(heap, heap[e].Enclosing, name)
    ELSE 0

\* C13: an assignment updates the innermost frame of the chain that owns the
\* name, and that frame itself: every other frame and every other name is
\* unchanged, and after the inner block or function body has exited a lookup
\* from the enclosing frame sees the new value.
C13_AssignMutatesOwner ==
    /\ \A i \in Events :
           Ev(i).e = "assign" =>
               LET o == Owner(Ev(i).before, Ev(i).env, Ev(i).name)
               IN  /\ o # 0
                   /\ Ev(i).after =
                          [Ev(i).before EXCEPT ![o].Values[Ev(i).name] = Ev(i).v]
    /\ RunOver /\ source = "var a = 1; { var a = 2; { a = 3; print a; } print a; } print a;"
           => Printed = <<Num(3), Num(3), Num(1)>>
    /\ RunOver /\ source = "var a = 1; fun f() { a = 2; } f(); print a;"
           => Printed = <<Num(2)>>

\* an assignment made two frames inside the owner, with an outer frame that
\* owns the name too, and the program run to its end
C13_Witness ==
    /\ RunOver /\ status = "exit 0"
    /\ \E i \in Events :
           /\ Ev(i).e = "assign"
           /\ Owner(Ev(i).before, Ev(i).env, Ev(i).name) \notin {0, 1, Ev(i).env}
           /\ Ev(i).name \in DOMAIN Ev(i).before[1].Values


\* C14: a var declaration binds in the current frame only: that frame gets
\* the name with the value, every other frame and name is unchanged, and in
\* var x = 1; { var x = 2; print x; } print x; the block sees 2 and the code
\* after the block sees 1 again.
C14_VarBindsInCurrentFrame ==
    /\ \A i \in Events :
           Ev(i).e = "define" =>
               LET b == Ev(i).before
                   a == Ev(i).after
                   c == Ev(i).env
               IN  /\ DOMAIN a = DOMAIN b
                   /\ \A f \in DOMAIN b : f # c => a[f] = b[f]
                   /\ a[c].Enclosing = b[c].Enclosing
                   /\ DOMAIN a[c].Values = DOMAIN b[c].Values \cup {Ev(i).name}
                   /\ a[c].Values[Ev(i).name] = Ev(i).v
                   /\ \A n \in DOMAIN b[c].Values :
                          n # Ev(i).name => a[c].Values[n] = b[c].Values[n]
    /\ RunOver /\ source = "var x = 1; { var x = 2; print x; } print x;"
           => Printed = <<Num(2), Num(1)>>

\* a var declared in a block under a name the global frame owns with another
\* value, and the program run to its end
C14_Witness ==
    /\ RunOver /\ status = "exit 0"
    /\ \E i \in Events :
           /\ Ev(i).e = "define" /\ Ev(i).env # 1
           /\ Ev(i).name \in DOMAIN Ev(i).before[1].Values
           /\ Ev(i).before[1].Values[Ev(i).name] # Ev(i).v
    /\ Len(Printed) = 2


\* ps holds the tokens ScanTokens returned for source
Scanned == pc \in {"parse", "interpret", "prompt", "exited", "cut"} /\ ps # NoParse

\* the number of newline characters of a text
Newlines(text) == Cardinality({k \in 1..Len(text) : SubSeq(text, k, k) = "\n"})

\* C15: the token list of the scanner ends with an EOF token, holds no other
\* EOF token, and the line of that token is 1 plus the number of newlines of
\* the source, all of which the scan has consumed.
C15_EndsWithOneEOF ==
    Scanned =>
        LET toks == ps.p.Tokens
        IN  /\ Len(toks) >= 1
            /\ toks[Len(toks)].Type = "EOF"
            /\ \A j \in 1..(Len(toks) - 1) : toks[j].Type # "EOF"
            /\ toks[Len(toks)].Line = 1 + Newlines(source)

\* a source of three lines has been scanned into tokens
C15_Witness ==
    /\ pc = "parse"
    /\ Newlines(source) >= 2
    /\ Len(ps.p.Tokens) > 3
    /\ ps.p.Tokens[Len(ps.p.Tokens)].Line = 3


\* C16: every token but EOF has as lexeme the source text between Start and
\* Current of the scanner at its emission, and the tokens come in increasing
\* order of start position with spans that do not overlap.
C16_LexemesAreOrderedSpans ==
    Scanned =>
        \A s \in {ScanTokens(source)} :
            /\ ps.p.Tokens = s.Tokens
            /\ Len(s.Spans) = Len(s.Tokens) - 1
            /\ \A j \in 1..Len(s.Spans) :
                   /\ s.Tokens[j].Type # "EOF"
                   /\ s.Spans[j].start < s.Spans[j].current
                   /\ s.Spans[j].current <= Len(source)
                   /\ s.Tokens[j].Lexeme =
                          SubSeq(source, s.Spans[j].start + 1, s.Spans[j].current)
                   /\ \A k \in (j + 1)..Len(s.Spans) :
                          /\ s.Spans[j].start < s.Spans[k].start
                          /\ s.Spans[j].current <= s.Spans[k].start

\* a string token over two lines, a comment or blanks lie between the tokens
\* of a scanned source
C16_Witness ==
    /\ pc = "parse"
    /\ \E j \in 1..(Len(ps.p.Tokens) - 2) :
           /\ ps.p.Tokens[j].Type = "STRING"
           /\ Len(ps.p.Tokens[j].Lexeme) >= 5
           /\ ps.p.Tokens[j + 1].Type = ";"


\* the characters that start no token and are not blank
Unexpected(c) ==
    /\ c \notin { "(", ")", "{", "}", ",", ".", "-", "+", ";", "*", "!", "=",
                  "<", ">", "/", " ", "\r", "\t", "\n", "\"" }
    /\ ~isDigit(c)
    /\ ~isAlpha(c)

\* no quote at or after position from (counted from 0) of the text
NoQuoteFrom(text, from) == \A k \in (from + 1)..Len(text) : SubSeq(text, k, k) # "\""

\* C17: a lexical error never stops the scan. An unexpected character or an
\* unterminated string adds one diagnostic and no token, the tokens scanned
\* before are kept, the scan goes on with the bytes that follow (the tokens
\* after an unexpected character are emitted) until the source is consumed,
\* and the list returned ends in EOF.
C17_LexicalErrorKeepsScanning ==
    Scanned =>
        \A tr \in {ScanTrace(ScannerNew(source))} :
            /\ tr[Len(tr)].Current = Len(source)
            /\ Len(ps.p.Tokens) = Len(tr[Len(tr)].Tokens) + 1
            /\ SubSeq(ps.p.Tokens, 1, Len(ps.p.Tokens) - 1) = tr[Len(tr)].Tokens
            /\ ps.p.Tokens[Len(ps.p.Tokens)].Type = "EOF"
            /\ \A j \in 1..(Len(tr) - 1) :
                 \A c \in {CharAt(source, tr[j].Current)} :
                   /\ tr[j + 1].Current > tr[j].Current
                   /\ SubSeq(tr[j + 1].Tokens, 1, Len(tr[j].Tokens)) = tr[j].Tokens
                   /\ SubSeq(tr[j + 1].Diag, 1, Len(tr[j].Diag)) = tr[j].Diag
                   /\ Len(tr[j + 1].Diag) > Len(tr[j].Diag) =>
                          /\ Len(tr[j + 1].Diag) = Len(tr[j].Diag) + 1
                          /\ tr[j + 1].Tokens = tr[j].Tokens
                   /\ Unexpected(c) =>
                          /\ Len(tr[j + 1].Diag) = Len(tr[j].Diag) + 1
                          /\ tr[j + 1].Diag[Len(tr[j + 1].Diag)].msg =
                                 "Unexpected character " \o c
                          /\ tr[j + 1].Current = tr[j].Current + 1
                   /\ c = "\"" /\ NoQuoteFrom(source, tr[j].Current + 1) =>
                          /\ Len(tr[j + 1].Diag) = Len(tr[j].Diag) + 1
                          /\ tr[j + 1].Diag[Len(tr[j + 1].Diag)].msg =
                                 "Unterminated string."
            /\ source = "@print 1;" =>
                   [j \in 1..Len(ps.p.Tokens) |-> ps.p.Tokens[j].Type]
                       = <<"PRINT", "NUMBER", ";", "EOF">>
            /\ source = "print 1; # print 2;\n\"" =>
                   [j \in 1..Len(ps.p.Tokens) |-> ps.p.Tokens[j].Type]
                       = <<"PRINT", "NUMBER", ";", "PRINT", "NUMBER", ";", "EOF">>

\* a source with an unexpected character and an unterminated string has been
\* scanned: two diagnostics, and tokens from after the unexpected character
C17_Witness ==
    /\ pc = "parse"
    /\ source = "print 1; # print 2;\n\""
    /\ Len(ps.p.Tokens) = 7
    /\ stdout = << [diag |-> "Unexpected character #", line |-> 1],
                   [diag |-> "Unterminated string.", line |-> 2] >>


\* the statement and the expression a text is parsed to, on its own
StmtOf(text) == declaration(ParserNew(ScanTokens(text).Tokens)).node

ExprOf(text) == expression(ParserNew(ScanTokens(text).Tokens)).node

\* C18: for (init; cond; inc) body with the three clauses is parsed to
\* Block[init, While(cond, Block[body, ExpressionStmt(inc)])], the statement
\* { init; while (cond) { body; inc; } } is parsed to, and
\* for (var i = 0; i < 3; i = i + 1) print i; prints 0, 1, 2.
C18_ForIsWhile ==
    \A prefix \in ForPrefixes, init \in ForInits, body \in ForBodies :
        Parsed /\ source = ForSource(prefix, init, body) =>
            /\ ~ps.isError
            /\ Len(ps.statements) = (IF prefix = "" THEN 1 ELSE 2)
            /\ ps.statements[Len(ps.statements)] =
                   BlockStmt(<< StmtOf(init),
                                WhileStmt(ExprOf("i < 3"),
                                    BlockStmt(<< StmtOf(body),
                                                 ExpressionStmt(ExprOf("i = i + 1")) >>)) >>)
            /\ ps.statements[Len(ps.statements)] =
                   StmtOf("{ " \o init \o " while (i < 3) { " \o body
                               \o " i = i + 1; } }")
            /\ (pc = "exited" /\ (prefix # "" \/ init = "var i = 0;")) =>
                   /\ Printed = <<Num(0), Num(1), Num(2)>>
                   /\ status = "exit 0"

\* the for statement of the claim has run to its end
C18_Witness ==
    /\ source = "for (var i = 0; i < 3; i = i + 1) print i;"
    /\ pc = "exited"
    /\ status = "exit 0"
    /\ Printed = <<Num(0), Num(1), Num(2)>>
    /\ ps.statements[1].k = "Block"


\* the operand texts that are numbers and strings, and what they denote
IsNumberText(a) == a \in {"6", "3"}

IsStringText(a) == a \in {"\"a\"", "\"b\""}

IntOf(a) == IF a = "6" THEN 6 ELSE 3

TextOf(a) == IF a = "\"a\"" THEN "a" ELSE "b"

\* the value of a op b for two numbers
ArithValue(x, op, y) ==
    CASE op = "-"  -> Num(x - y)
      [] op = "*"  -> Num(x * y)
      [] op = "/"  -> NumV(x, y)
      [] op = "+"  -> Num(x + y)
      [] op = "<"  -> BoolV(x < y)
      [] op = "<=" -> BoolV(x <= y)
      [] op = ">"  -> BoolV(x > y)
      [] op = ">=" -> BoolV(x >= y)

\* the run printed exactly v and ended normally
PrintsOnly(v) == Printed = <<v>> /\ status = "exit 0"

\* the run printed nothing, reported the runtime error msg and ended with it
FailsWith(msg) ==
    /\ Printed = <<>>
    /\ status = "exit 1"
    /\ stdout = <<[err |-> msg]>>
    /\ \E i \in Events : Ev(i).e = "error" /\ Ev(i).msg = msg

\* C19: binary -, *, /, <, <=, >, >= and unary - raise a runtime error unless
\* every operand is a number; + adds two numbers, concatenates two strings and
\* raises a runtime error for every other combination of operand types, so
\* that print "a" + 1; prints nothing.
C19_ArithmeticChecksOperands ==
    /\ \A a \in ArithOperands, op \in ArithOperators, b \in ArithOperands :
           source = BinarySource(a, op, b) =>
               /\ pc # "cut"
               /\ Parsed => ~ps.isError /\ Len(ps.statements) = 1
               /\ pc = "exited" =>
                      IF IsNumberText(a) /\ IsNumberText(b)
                      THEN PrintsOnly(ArithValue(IntOf(a), op, IntOf(b)))
                      ELSE IF op = "+" /\ IsStringText(a) /\ IsStringText(b)
                      THEN PrintsOnly(StrV(TextOf(a) \o TextOf(b)))
                      ELSE IF op = "+"
                      THEN FailsWith("operands must be two numbers or two strings")
                      ELSE FailsWith("operands must be numbers")
    /\ \A a \in ArithOperands :
           source = NegateSource(a) =>
               /\ pc # "cut"
               /\ Parsed => ~ps.isError /\ Len(ps.statements) = 1
               /\ pc = "exited" =>
                      IF IsNumberText(a) THEN PrintsOnly(Num(0 - IntOf(a)))
                      ELSE FailsWith("operand must be a number")
    /\ source = "print \"a\" + 1;" =>
           /\ pc # "cut"
           /\ pc = "exited" =>
                  FailsWith("operands must be two numbers or two strings")

\* the addition of a string and a number has ended the run with an error
C19_Witness ==
    /\ source = "print \"a\" + 1;"
    /\ pc = "exited"
    /\ FailsWith("operands must be two numbers or two strings")


\* the lines written by print statements, in order, without their newline
PrintedText == LET lines == SelectSeq(stdout, LAMBDA l : "print" \in DOMAIN l)
               IN  [j \in 1..Len(lines) |-> lines[j].text]

\* C20: print writes the display form of its value and a newline: nil as
\* "nil", booleans as "true" and "false", a string as its text, a user function
\* as "<fn NAME>" and a built-in as "<native fn>".
C20_PrintWritesDisplayForm ==
    pc = "exited" =>
        /\ source = "print nil;" => PrintedText = <<"nil">>
        /\ source = "print true;" => PrintedText = <<"true">>
        /\ source = "print false;" => PrintedText = <<"false">>
        /\ source = "print \"hi\";" => PrintedText = <<"hi">>
        /\ source = "fun f(a) { print a; } print f;" => PrintedText = <<"<fn f>">>
        /\ source = "print clock;" => PrintedText = <<"<native fn>">>


\* the keywords that begin a statement
StatementStart == {"CLASS", "FUN", "VAR", "FOR", "IF", "WHILE", "PRINT", "RETURN"}

\* the first cursor, from p on, at which the token consumed last is ";" or
\* the next token begins a statement (or is EOF)
RECURSIVE FirstStatementBoundary(_)
FirstStatementBoundary(p) ==
    IF isAtEnd(p) \/ previous(p).Type = ";" \/ peek(p).Type \in StatementStart
    THEN p.Current
    ELSE FirstStatementBoundary(advance(p))

\* C21: after a parse error, synchronize discards tokens until the token
\* consumed last is ";" or the next token is one of class, fun, var, for, if,
\* while, print, return, and stops at the first such point: parsing resumes
\* at that keyword, which is not discarded.
C21_SynchronizeStopsAtStatement ==
    pc = "parse" /\ ~isAtEnd(ps.p) =>
        \A d \in {declaration(ps.p)} :
            d.err # "" =>
                ParseIteration(ps).p.Current = FirstStatementBoundary(advance(d.p))


\* C22: a for statement with an omitted clause parses without error: without
\* condition the While has Literal(true) as condition, without increment the
\* body is used unwrapped, and Parse returns errored = false.
C22_ForWithOmittedClause ==
    Parsed =>
        /\ source = "for (var i = 0; ; i = i + 1) print i;" =>
               /\ ~ps.isError
               /\ ps.statements =
                      << BlockStmt(<< StmtOf("var i = 0;"),
                                      WhileStmt(Literal(BoolV(TRUE)),
                                          BlockStmt(<< StmtOf("print i;"),
                                                       ExpressionStmt(ExprOf("i = i + 1")) >>)) >>) >>
        /\ source = "for (;;) print 1;" =>
               /\ ~ps.isError
               /\ ps.statements =
                      << WhileStmt(Literal(BoolV(TRUE)), StmtOf("print 1;")) >>
        /\ source = "for (var i = 0; i < 1;) print i;" =>
               /\ ~ps.isError
               /\ ps.statements =
                      << BlockStmt(<< StmtOf("var i = 0;"),
                                      WhileStmt(ExprOf("i < 1"), StmtOf("print i;")) >>) >>


\* C23: a call with more than 255 arguments and a function declaration with
\* more than 255 parameters are reported as parse errors; lists of up to 255
\* entries are accepted without error.
C23_ListsAreLimited ==
    Parsed =>
        /\ source \in {CallWith(255), FunctionWith(255)} => ~ps.isError
        /\ source \in {CallWith(256), FunctionWith(256)} => ps.isError


\* sub occurs in text
Contains(text, sub) ==
    \E j \in 0..(Len(text) - Len(sub)) : SubSeq(text, j + 1, j + Len(sub)) = sub

\* an Assign node occurs in the expression or statement
RECURSIVE HasAssign(_)
HasAssign(node) ==
    CASE node.k = "Assign" -> TRUE
      [] node.k \in {"Binary", "Logical"} ->
            HasAssign(node.Left) \/ HasAssign(node.Right)
      [] node.k = "Unary" -> HasAssign(node.Right)
      [] node.k \in {"Grouping", "Expression", "Print"} -> HasAssign(node.Expression)
      [] OTHER -> FALSE

\* C24: assignment is parsed right-associatively and its target is checked:
\* a = b = c is Assign(a, Assign(b, c)); when the left of = is no Variable
\* (1 = 2, (a) = 2, a + b = 2) the parser reports "Invalid assignment
\* target." with errored = true and builds no Assign node.
C24_AssignmentIsRightAssociative ==
    Parsed =>
        /\ source = "a = b = c;" =>
               /\ ~ps.isError
               /\ ps.statements =
                      << ExpressionStmt(
                             Assign(Token("IDENTIFIER", "a", StrV("a"), 1),
                                 Assign(Token("IDENTIFIER", "b", StrV("b"), 1),
                                        Variable(Token("IDENTIFIER", "c", StrV("c"), 1))))) >>
        /\ source \in {"1 = 2;", "(a) = 2;", "a + b = 2;"} =>
               /\ ps.isError
               /\ Len(ps.diag) = 1
               /\ Contains(ps.diag[1].msg, "Invalid assignment target.")
               /\ Len(ps.statements) = 1
               /\ ~HasAssign(ps.statements[1])
        /\ source = "var a; var b; a = b = 3; print a;" /\ pc = "exited" =>
               Printed = <<Num(3)>>

\* an assignment to a grouping has been reported and parsing is over
C24_Witness ==
    /\ source = "(a) = 2;"
    /\ pc = "interpret"
    /\ ps.isError
    /\ stdout = <<[line |-> 1, diag |-> "{= = = 1}Invalid assignment target. "]>>


\* the characters that are a token by themselves
SingleCharacters == {"(", ")", "{", "}", ",", ".", "-", "+", ";", "*"}

\* the characters that are a token alone or with a following =
OneOrTwoCharacters == {"!", "=", "<", ">"}

\* the byte of the text at position pos, counted from 0, "" past its end
ByteAt(text, pos) == IF pos < Len(text) THEN SubSeq(text, pos + 1, pos + 1) ELSE ""

\* the types of a token list, in order
TypesOf(tokens) == [j \in 1..Len(tokens) |-> tokens[j].Type]

\* C25: punctuation is tokenized by longest match, in source order: each of
\* ( ) { } , . - + ; * is one token of its kind; each of ! = < > is the
\* two-character token when the next byte is = and the one-character token
\* otherwise; // through the end of the line yields no token; and the Literal
\* of every punctuation, operator, keyword and identifier token is its lexeme.
C25_PunctuationByLongestMatch ==
    Scanned =>
        \A s \in {ScanTokens(source)} :
            /\ ps.p.Tokens = s.Tokens
            /\ \A j \in 1..Len(s.Spans) :
                 \A c \in {ByteAt(source, s.Spans[j].start)} :
                   /\ c \in SingleCharacters =>
                          /\ s.Tokens[j].Type = c
                          /\ s.Tokens[j].Lexeme = c
                   /\ c \in OneOrTwoCharacters =>
                          IF ByteAt(source, s.Spans[j].start + 1) = "="
                          THEN /\ s.Tokens[j].Type = c \o "="
                               /\ s.Tokens[j].Lexeme = c \o "="
                          ELSE /\ s.Tokens[j].Type = c
                               /\ s.Tokens[j].Lexeme = c
                   /\ c = "/" =>
                          /\ s.Tokens[j].Type = "/"
                          /\ s.Tokens[j].Lexeme = "/"
                          /\ ByteAt(source, s.Spans[j].start + 1) # "/"
                   /\ s.Tokens[j].Type \notin {"STRING", "NUMBER"} =>
                          s.Tokens[j].Literal = StrV(s.Tokens[j].Lexeme)
            /\ source = TestTokenInput =>
                   /\ TypesOf(s.Tokens) =
                          << "(", ")", "{", "}", ",", ".", "-", "+", ";", "*",
                             "!", "!=", "==", "=", "<=", "<", ">=", ">", "/",
                             "IDENTIFIER", "STRING", "EOF" >>
                   /\ s.Tokens[20].Lexeme = "test"
                   /\ s.Tokens[21].Line = 2
            /\ source = "a === !== <== >== b;" =>
                   TypesOf(s.Tokens) =
                       << "IDENTIFIER", "==", "=", "!=", "=", "<=", "=", ">=",
                          "=", "IDENTIFIER", ";", "EOF" >>
            /\ source = "1 / 2; //3 / 4\n5;" =>
                   TypesOf(s.Tokens) =
                       << "NUMBER", "/", "NUMBER", ";", "NUMBER", ";", "EOF" >>

\* the input of TestToken has been scanned: the two-character operators, the
\* slash and the identifier are tokens, the comment is none
C25_Witness ==
    /\ pc = "parse"
    /\ source = TestTokenInput
    /\ Len(ps.p.Tokens) = 22
    /\ ps.p.Tokens[12] = Token("!=", "!=", StrV("!="), 1)
    /\ ps.p.Tokens[19] = Token("/", "/", StrV("/"), 1)
    /\ ps.p.Tokens[20] = Token("IDENTIFIER", "test", StrV("test"), 1)


\* C26: when the parser needs an expression and the next token cannot begin
\* a primary (as in print ; or 1 + ; or print ();), Parse reports an error:
\* no input with a missing operand is accepted with errored = false.
C26_MissingOperandIsReported ==
    Parsed /\ source \in {"print ;", "1 + ;", "print ();"} => ps.isError


\* the cursor of the parser is the index of a token
CursorInRange == 0 <= ps.p.Current /\ ps.p.Current < Len(ps.p.Tokens)

\* an iteration of the loop of Parse adds a statement and moves the cursor
\* forward over the same tokens
IterationConsumes ==
    pc = "parse" /\ pc' = "parse" /\ ps' # ps =>
        /\ ps'.p.Tokens = ps.p.Tokens
        /\ Len(ps'.statements) = Len(ps.statements) + 1
        /\ ps'.p.Current > ps.p.Current

\* C27: Parse terminates on every token list ending in EOF: every iteration of
\* its loop, a successful declaration or a failed one followed by
\* synchronize, consumes at least one token, and the cursor always satisfies
\* 0 <= Current < len(Tokens), so that peek() is defined, and previous() is
\* after the first token has been consumed. The number of tokens after the
\* cursor is the variant of the loop: it is positive and every iteration
\* makes it smaller.
C27_ParseTerminates ==
    /\ [](Scanned => CursorInRange /\ ps.p.Tokens[Len(ps.p.Tokens)].Type = "EOF")
    /\ [][IterationConsumes]_vars

\* a declaration that starts with a token no expression begins with has
\* failed, synchronize has run, and Parse has tokens left to parse
C27_Witness ==
    /\ pc = "parse"
    /\ source = ") 1; print 2;"
    /\ ps.isError
    /\ Len(ps.statements) = 1
    /\ ps.p.Current >= 1
    /\ ~isAtEnd(ps.p)


(***************************************************************************)
(* The earlier revision of the parser (src/parser/parser.go): expressions  *)
(* down from equality, print and expression statements, var declarations;  *)
(* Parse returns the statement list only.  previous, peek, isAtEnd,        *)
(* advance, check, match and consume are those of the later revision.      *)
(* What the parser writes with fmt.Println is collected in Out.            *)
(***************************************************************************)
\* fmt.Println(err)
EarlierPrintln(p, err) == [p EXCEPT !.Out = Append(@, [println |-> err])]

\* fmt.Println(value) of an ast.Expr: the operand is recorded
EarlierPrintlnExpr(p, value) == [p EXCEPT !.Out = Append(@, [value |-> value])]

RECURSIVE EarlierUnary(_)
RECURSIVE EarlierBinaryLoop(_, _, _)
RECURSIVE EarlierFactor(_)
RECURSIVE EarlierTerm(_)
RECURSIVE EarlierComparison(_)
RECURSIVE EarlierEquality(_)

EarlierExpression(p) == EarlierEquality(p)

EarlierPrimary(p) ==
    IF match(p, {"FALSE"}) THEN PResult(advance(p), Literal(BoolV(FALSE)), "")
    ELSE IF match(p, {"TRUE"}) THEN PResult(advance(p), Literal(BoolV(TRUE)), "")
    ELSE IF match(p, {"NIL"}) THEN PResult(advance(p), Literal(NilV), "")
    ELSE IF match(p, {"NUMBER", "STRING"})
         THEN PResult(advance(p), Literal(previous(advance(p)).Literal), "")
    ELSE IF match(p, {"IDENTIFIER"})
         THEN PResult(advance(p), Variable(previous(advance(p))), "")
    ELSE IF match(p, {"("})
         THEN With(EarlierExpression(advance(p)), LAMBDA e :
                  IF e.err # "" THEN PResult(e.p, NilNode, e.err)
                  ELSE With(consume(e.p, ")", "Expect ')' after expression."),
                            LAMBDA c :
                                IF c.err # ""
                                THEN PResult(EarlierPrintln(c.p, c.err),
                                             Grouping(e.node), c.err)
                                ELSE PResult(c.p, Grouping(e.node), "")))
    ELSE PResult(p, Binary(NilNode, ZeroToken, NilNode), "")

\* the Unary node is returned together with the error of its operand
EarlierUnary(p) ==
    IF match(p, {"!", "-"})
    THEN With(EarlierUnary(advance(p)), LAMBDA r :
             PResult(r.p, Unary(previous(advance(p)), r.node), r.err))
    ELSE EarlierPrimary(p)

EarlierLevelOps(level) ==
    CASE level = "factor" -> {"*", "/"}
      [] level = "term" -> {"+", "-"}
      [] level = "comparison" -> {">", ">=", "<", "<="}
      [] level = "equality" -> {"!=", "=="}

EarlierOperand(level, p) ==
    CASE level = "factor" -> EarlierUnary(p)
      [] level = "term" -> EarlierFactor(p)
      [] level = "comparison" -> EarlierTerm(p)
      [] level = "equality" -> EarlierComparison(p)

\* the loop of a binary level: the error of a right operand ends it
EarlierBinaryLoop(level, p, left) ==
    IF match(p, EarlierLevelOps(level))
    THEN With(EarlierOperand(level, advance(p)), LAMBDA r :
             IF r.err # "" THEN PResult(r.p, NilNode, r.err)
             ELSE EarlierBinaryLoop(level, r.p,
                      Binary(left, previous(advance(p)), r.node)))
    ELSE PResult(p, left, "")

\* term, comparison and equality do not test the error of the first operand:
\* the loop runs, and the error is returned with the expression built
EarlierUnchecked(level, e) ==
    With(EarlierBinaryLoop(level, e.p, e.node), LAMBDA l :
        IF l.err # "" THEN l ELSE PResult(l.p, l.node, e.err))

EarlierFactor(p) ==
    With(EarlierUnary(p), LAMBDA e :
        IF e.err # "" THEN PResult(e.p, NilNode, e.err)
        ELSE EarlierBinaryLoop("factor", e.p, e.node))

EarlierTerm(p) == EarlierUnchecked("term", EarlierFactor(p))

EarlierComparison(p) == EarlierUnchecked("comparison", EarlierTerm(p))

EarlierEquality(p) == EarlierUnchecked("equality", EarlierComparison(p))

EarlierPrintStatement(p) ==
    With(EarlierExpression(p), LAMBDA e :
        IF e.err # "" THEN PResult(EarlierPrintlnExpr(e.p, e.node), NilNode, e.err)
        ELSE With(consume(e.p, ";", "Expect ';' after value."), LAMBDA c :
                 IF c.err # "" THEN PResult(EarlierPrintln(c.p, c.err), NilNode, c.err)
                 ELSE PResult(c.p, PrintStmt(e.node), "")))

\* the result of consume is dropped: a missing ; is no error
EarlierExpressionStatement(p) ==
    With(EarlierExpression(p), LAMBDA e :
        IF e.err # "" THEN PResult(EarlierPrintlnExpr(e.p, e.node), NilNode, e.err)
        ELSE PResult(consume(e.p, ";", "Expect ';' after value.").p,
                     ExpressionStmt(e.node), ""))

EarlierStatement(p) ==
    IF match(p, {"PRINT"}) THEN EarlierPrintStatement(advance(p))
    ELSE EarlierExpressionStatement(p)

EarlierVarDeclaration(p) ==
    With(consume(p, "IDENTIFIER", "Expect variable name."), LAMBDA name :
        IF name.err # ""
        THEN PResult(EarlierPrintln(name.p, name.err), NilNode, name.err)
        ELSE With(IF match(name.p, {"="})
                  THEN EarlierExpression(advance(name.p))
                  ELSE PResult(name.p, NilNode, ""),
                  LAMBDA init :
                      IF init.err # ""
                      THEN PResult(EarlierPrintln(init.p, init.err), NilNode, init.err)
                      ELSE PResult(consume(init.p, ";",
                                       "Expect ';' after variable declaration").p,
                                   VarStmt(name.tok, init.node), "")))

EarlierDeclaration(p) ==
    IF match(p, {"VAR"}) THEN EarlierVarDeclaration(advance(p))
    ELSE EarlierStatement(p)

\* the loop of synchronize advances at its head and again at its end
RECURSIVE EarlierSynchronizeLoop(_)
EarlierSynchronizeLoop(p) ==
    IF isAtEnd(p) THEN p
    ELSE IF previous(advance(p)).Type = ";" THEN advance(p)
    ELSE IF peek(advance(p)).Type = "RETURN" THEN advance(p)
    ELSE EarlierSynchronizeLoop(advance(advance(p)))

EarlierSynchronize(p) == EarlierSynchronizeLoop(advance(p))

\* one iteration of the loop of Parse; loop = [p, statements]
EarlierParseIteration(loop) ==
    With(EarlierDeclaration(loop.p), LAMBDA d :
        [p          |-> IF d.err # ""
                        THEN EarlierSynchronize(EarlierPrintln(d.p, d.err))
                        ELSE d.p,
         statements |-> Append(loop.statements, d.node)])

\* the statements that make up the sources given to the earlier parser
EarlierStatements ==
    { "print 1;", "1 + 2;", "var a = 1;", "print (1;", "var ;", "print 1",
      "-1 * (2 - 3) == !4;", "var b = (2; print b;", "print a < 1 >= 2 != 3 / 4;" }

EarlierSources ==
    {")", "= 1;", "var a = 1 ) print a;"}
        \cup {a \o " " \o b : a, b \in EarlierStatements}

\* the iterations of Parse that a run of the model follows
MaxIterations == 4

\* run(source) with the earlier parser, up to the return of Parse
EarlierInit ==
    /\ mode = "file"
    /\ pc = "scan"
    /\ source \in EarlierSources
    /\ stdin = <<>>
    /\ ps = NoParse
    /\ it = InterpreterNew(<<>>)
    /\ rest = <<>>
    /\ stdout = <<>>
    /\ status = ""

EarlierScan ==
    /\ pc = "scan"
    /\ \E s \in {ScanTokens(source)} :
           /\ ps' = [p |-> ParserNew(s.Tokens), statements |-> <<>>]
           /\ stdout' = stdout \o DiagLines(s.Diag)
    /\ pc' = "parse"
    /\ UNCHANGED <<mode, stdin, source, it, rest, status>>

EarlierParseStep ==
    /\ pc = "parse"
    /\ ~isAtEnd(ps.p)
    /\ Len(ps.statements) < MaxIterations
    /\ ps' = EarlierParseIteration(ps)
    /\ stdout' = stdout \o SubSeq(ps'.p.Out, Len(ps.p.Out) + 1, Len(ps'.p.Out))
    /\ UNCHANGED <<mode, stdin, pc, source, it, rest, status>>

EarlierParseReturn ==
    /\ pc = "parse"
    /\ isAtEnd(ps.p)
    /\ rest' = ps.statements
    /\ pc' = "parsed"
    /\ UNCHANGED <<mode, stdin, source, ps, it, stdout, status>>

EarlierNext ==
    \/ EarlierScan
    \/ EarlierParseStep
    \/ EarlierParseReturn

EarlierSpec == EarlierInit /\ [][EarlierNext]_vars

\* C28: in the earlier revision of the parser, Parse terminates on every
\* token list ending in EOF because every iteration of its loop consumes at
\* least one token, also when the next token cannot begin an expression
\* (a leading ) or =).
C28_EarlierParseConsumes ==
    [][pc = "parse" /\ pc' = "parse" /\ ps' # ps =>
           ps'.p.Current > ps.p.Current]_vars


\* the frames of the chain of e below the frame of Globals
RECURSIVE LocalFrames(_, _, _)
LocalFrames(heap, globals, e) ==
    IF e = 0 \/ e = globals THEN {}
    ELSE {e} \cup LocalFrames(heap, globals, heap[e].Enclosing)

\* the bindings of parameters to arguments, the later of two equal names last
RECURSIVE Bound(_, _, _)
Bound(values, params, arguments) ==
    IF params = <<>> THEN values
    ELSE Bound([name \in DOMAIN values \cup {Head(params).Lexeme} |->
                   IF name = Head(params).Lexeme THEN Head(arguments)
                   ELSE values[name]],
               Tail(params), Tail(arguments))

\* C29: every call of a user function binds its parameters in a frame created
\* for that call alone; during and after a nested or recursive call the
\* parameter and local bindings of the caller are unchanged, and when the
\* call returns normally the current environment of the interpreter is the
\* frame of the caller again.
C29_CallHasItsOwnFrame ==
    /\ \A j \in Events :
           Ev(j).e = "call" =>
               /\ Ev(j - 1).e = "apply"
               /\ Ev(j).env = Len(Ev(j - 1).heap) + 1
               /\ \A k \in Events :
                      Ev(k).e = "call" /\ k # j => Ev(k).env # Ev(j).env
               /\ Ev(j).heap[Ev(j).env].Values =
                      Bound(EmptyValues, Ev(j).params, Ev(j).arguments)
               /\ \A e \in 1..Len(Ev(j - 1).heap) : Ev(j).heap[e] = Ev(j - 1).heap[e]
               /\ \A i \in Events :
                      i > j /\ Ev(i).e \in {"apply", "call", "callEnd"}
                            /\ (\A k \in j..(i - 1) :
                                   ~(Ev(k).e = "callEnd" /\ Ev(k).call = Ev(j).call))
                      => /\ \A e \in LocalFrames(Ev(j).heap, it.Globals, Ev(j).callerEnv) :
                                Ev(i).heap[e] = Ev(j - 1).heap[e]
                         /\ Ev(i).e = "callEnd" /\ Ev(i).call = Ev(j).call
                                /\ Ev(i).err = ""
                                => Ev(i).env = Ev(j).callerEnv
    /\ RunOver /\ source = "fun f(n) { if (n > 0) { f(n - 1); } print n; } f(2);"
           => Printed = <<Num(0), Num(1), Num(2)>>
    /\ RunOver /\ source
           = "fun f(n) { var m = n * 10; if (n > 0) f(n - 1); print m + n; } f(1);"
           => Printed = <<Num(0), Num(11)>>
    /\ RunOver /\ source
           = "fun g(a) { a = a + 1; print a; } fun f(a) { var b = a; { var c = b; g(5); print c; } print a + b; } f(1);"
           => Printed = <<Num(6), Num(1), Num(2)>>

\* a recursive call inside a call has returned to its caller, whose
\* parameter is bound to another value than the parameter of the callee
C29_Witness ==
    /\ source = "fun f(n) { if (n > 0) { f(n - 1); } print n; } f(2);"
    /\ \E j, i \in Events :
           /\ j < i
           /\ Ev(j).e = "call" /\ Ev(j).caller # 0
           /\ Ev(i).e = "callEnd" /\ Ev(i).call = Ev(j).call /\ Ev(i).err = ""
           /\ Ev(i).env = Ev(j).callerEnv
           /\ Ev(i).env # it.Globals
           /\ Ev(i).heap[Ev(j).env].Values # Ev(i).heap[Ev(j - 1).heap[Ev(j).callerEnv].Enclosing].Values
    /\ Len(Printed) >= 2

====
